---- MODULE Spec2Model ----
(***************************************************************************)
(* A model of ani-cli-server's main.py: the history store, the download    *)
(* reconciler (media_snapshot / detect_downloaded_file), the library       *)
(* indexer (list_library_groups) and the request handlers that use them.   *)
(*                                                                         *)
(* Strings are sequences of one-character strings, so that stripping,      *)
(* case folding, whitespace collapsing, suffix splitting and the           *)
(* EPISODE_NAME_RE match are computed, not assumed.                        *)
(***************************************************************************)
EXTENDS Integers, Sequences, FiniteSets, TLC

VARIABLES
    clock,        \* the wall clock: time.time() / utc_now_iso()
    historyFile,  \* HISTORY_FILE: [kind, items]
    historyLock,  \* HISTORY_LOCK: the set of workers holding it
    downloadLock, \* DOWNLOAD_LOCK: the set of workers holding it
    appended,     \* ghost: every entry saved by append_history, in save order
    arrivals,     \* ghost: for each of them, when its request arrived
    files,        \* DOWNLOAD_DIR: the regular files in it, name -> st_mtime
    seasonProcs,  \* the number of season downloader processes that run
    seasonWrote,  \* ghost: the files last written by a season downloader
    posters,      \* POSTER_DIR: the set of files in it, each <<base, ext>>
    catalog,      \* the catalog service: mode -> [ok, results]
    tree,         \* the file system: absolute path -> what is there
    pc,           \* per worker: the position in the operation it runs
    loc           \* per worker: the operation's local variables

vars == <<clock, historyFile, historyLock, downloadLock, appended, arrivals,
          files, seasonProcs, seasonWrote, posters, catalog, tree, pc, loc>>

----------------------------------------------------------------------------
(* Bounds of the model *)

NumWorkers == 2
MaxAppends == 11
MaxTime == 2
MaxPlays == 1
MaxRequests == 2

Workers == 1..NumWorkers
Times == 0..MaxTime

----------------------------------------------------------------------------
(* Python list slicing *)

Min(a, b) == IF a < b THEN a ELSE b
Max(a, b) == IF a > b THEN a ELSE b

\* s[start:] with Python's index rules (a negative start counts from the end)
SliceFrom(s, start) ==
    LET n == Len(s)
        i == IF start < 0 THEN Max(n + start, 0) ELSE Min(start, n)
    IN  SubSeq(s, i + 1, n)

\* s[:stop] for stop >= 0
SliceTo(s, stop) == SubSeq(s, 1, Min(stop, Len(s)))

Reversed(s) == [i \in 1..Len(s) |-> s[Len(s) + 1 - i]]

----------------------------------------------------------------------------
(* Strings: a string is a sequence of one-character strings *)

UpperChars == <<"A","B","C","D","E","F","G","H","I","J","K","L","M",
                "N","O","P","Q","R","S","T","U","V","W","X","Y","Z">>
LowerChars == <<"a","b","c","d","e","f","g","h","i","j","k","l","m",
                "n","o","p","q","r","s","t","u","v","w","x","y","z">>
DigitChars == <<"0","1","2","3","4","5","6","7","8","9">>

IsSpace(c) == c \in {" ", "\t", "\n"}
IsDigit(c) == \E i \in 1..Len(DigitChars) : DigitChars[i] = c
DigitVal(c) == (CHOOSE i \in 1..Len(DigitChars) : DigitChars[i] = c) - 1

\* str.lower(), one character
LowerChar(c) ==
    IF \E i \in 1..Len(UpperChars) : UpperChars[i] = c
    THEN LowerChars[CHOOSE i \in 1..Len(UpperChars) : UpperChars[i] = c]
    ELSE c

Lower(s) == [i \in 1..Len(s) |-> LowerChar(s[i])]

\* str.strip(): leading and trailing whitespace removed
Strip(s) ==
    LET keep == {i \in 1..Len(s) : ~IsSpace(s[i])}
    IN  IF keep = {} THEN <<>>
        ELSE LET lo == CHOOSE i \in keep : \A j \in keep : i <= j
                 hi == CHOOSE i \in keep : \A j \in keep : i >= j
             IN  SubSeq(s, lo, hi)

\* re.sub(r"\s+", " ", s): every run of whitespace becomes one space
RECURSIVE CollapseSpaces(_)
CollapseSpaces(s) ==
    IF s = <<>> THEN <<>>
    ELSE IF IsSpace(Head(s))
         THEN IF Len(s) > 1 /\ IsSpace(s[2])
              THEN CollapseSpaces(Tail(s))
              ELSE <<" ">> \o CollapseSpaces(Tail(s))
         ELSE <<Head(s)>> \o CollapseSpaces(Tail(s))

NormalizeIdentityBug(title) == title
normalize_title(title) == CollapseSpaces(Lower(Strip(title)))

\* int(digits) for a non-empty string of decimal digits
RECURSIVE IntOf(_)
IntOf(s) ==
    IF s = <<>> THEN 0
    ELSE IntOf(SubSeq(s, 1, Len(s) - 1)) * 10 + DigitVal(s[Len(s)])

\* needle in haystack (str.__contains__)
Contains(haystack, needle) ==
    \E i \in 1..(Len(haystack) - Len(needle) + 1) :
        SubSeq(haystack, i, i + Len(needle) - 1) = needle

----------------------------------------------------------------------------
(* File names (pathlib) *)

\* the position of the dot that starts Path.suffix, 0 when there is none
SuffixDot(name) ==
    LET dots == {i \in 1..Len(name) : name[i] = "."}
    IN  IF dots = {} THEN 0
        ELSE LET d == CHOOSE i \in dots : \A j \in dots : i >= j
             IN  IF 1 < d /\ d < Len(name) THEN d ELSE 0

\* Path.suffix and Path.stem
Suffix(name) ==
    IF SuffixDot(name) = 0 THEN <<>> ELSE SubSeq(name, SuffixDot(name), Len(name))
Stem(name) ==
    IF SuffixDot(name) = 0 THEN name ELSE SubSeq(name, 1, SuffixDot(name) - 1)

VIDEO_EXTENSIONS ==
    { <<".","m","p","4">>, <<".","m","k","v">>, <<".","w","e","b","m">>,
      <<".","m","o","v">>, <<".","a","v","i">> }

IsVideoAnySuffixBug(name) == TRUE
IsVideo(name) == Lower(Suffix(name)) \in VIDEO_EXTENSIONS

----------------------------------------------------------------------------
(* The history store *)

HistoryLimit == 10

\* load_history: a missing, unparsable or non-list file reads as []
load_history(file) ==
    IF file.kind # "list" THEN <<>> ELSE SliceFrom(file.items, -HistoryLimit)

\* save_history: the file now holds the JSON list
save_history(items) == [kind |-> "list", items |-> items]

\* the truncation of append_history, items[-10:]
TruncateNoneBug(items) == items
TruncateHeadBug(items) == SliceTo(items, HistoryLimit)
Truncate(items) == SliceFrom(items, -HistoryLimit)

\* the entry append_history builds: {"time", "event", "details"}
HistoryEntry(time, event, details) ==
    [time |-> time, event |-> event, details |-> details]

\* a details dict; an absent key is the empty string, or 0 for a number
Details(anime, episodes, episode, filename, image_url, poster_url) ==
    [anime |-> anime, episodes |-> episodes, episode |-> episode,
     filename |-> filename, image_url |-> image_url, poster_url |-> poster_url]

NoDetails == Details(<<>>, 0, 0, <<>>, "", <<>>)

\* a file system with nothing in it
NoTree == <<>>

LocInit ==
    [event |-> "", details |-> NoDetails, limit |-> 0,
     items |-> <<>>, ret |-> <<>>, seen |-> 0,
     before |-> <<>>, started |-> 0, after |-> <<>>, returncode |-> 0,
     ok |-> FALSE, msg |-> "", video |-> <<>>,
     path |-> "none",    \* ghost: the exit download_episode_for_browser took
     inferred |-> <<>>,  \* ghost: title -> what infer_total_episodes returned
     searched |-> <<>>,  \* ghost: title -> the modes it sent a search for
     arrived |-> 0,      \* ghost: when the request arrived, 0 for none
     request |-> [path |-> "none"],  \* ghost: the request being handled
     sent |-> <<>>]      \* ghost: the path of the file whose content was sent

\* ghost: an arrival stamp for a request that arrives now, later than those
\* of the requests being served and of the entries saved
NextArrival ==
    LET stamps == {loc[v].arrived : v \in Workers}
                      \cup {arrivals[i] : i \in 1..Len(arrivals)}
    IN  1 + (CHOOSE m \in stamps : \A n \in stamps : n <= m)

\* append_history(event, details) is called; the caller waits for HISTORY_LOCK
AppendCall(w, event, details) ==
    /\ pc[w] = "idle"
    /\ clock < MaxAppends
    /\ pc' = [pc EXCEPT ![w] = "append_wait"]
    /\ loc' = [loc EXCEPT ![w] = [LocInit EXCEPT !.event = event,
                                                  !.details = details]]
    /\ UNCHANGED <<clock, historyFile, historyLock, downloadLock, appended,
                   arrivals, files, posters, catalog, tree, seasonProcs, seasonWrote>>

\* with HISTORY_LOCK: (entered)
AppendAcquireNoLockBug(w) ==
    /\ pc[w] = "append_wait"
    /\ historyLock' = historyLock \cup {w}
    /\ pc' = [pc EXCEPT ![w] = "append_locked"]
    /\ UNCHANGED <<downloadLock, clock, historyFile, appended, arrivals,
                   files, posters, catalog, tree, loc, seasonProcs, seasonWrote>>

AppendAcquire(w) ==
    /\ pc[w] = "append_wait"
    /\ historyLock = {}
    /\ historyLock' = {w}
    /\ pc' = [pc EXCEPT ![w] = "append_locked"]
    /\ UNCHANGED <<downloadLock, clock, historyFile, appended, arrivals,
                   files, posters, catalog, tree, loc, seasonProcs, seasonWrote>>

\* items = load_history()
AppendLoad(w) ==
    /\ pc[w] = "append_locked"
    /\ loc' = [loc EXCEPT ![w].items = load_history(historyFile)]
    /\ pc' = [pc EXCEPT ![w] = "append_loaded"]
    /\ UNCHANGED <<clock, historyFile, historyLock, downloadLock, appended,
                   arrivals, files, posters, catalog, tree, seasonProcs, seasonWrote>>

\* items.append({...utc_now_iso()...}); items = items[-10:]; save_history(items)
AppendSave(w) ==
    /\ pc[w] = "append_loaded"
    /\ LET entry == HistoryEntry(clock, loc[w].event, loc[w].details)
           items == Truncate(Append(loc[w].items, entry))
       IN  /\ historyFile' = save_history(items)
           /\ appended' = Append(appended, entry)
           /\ arrivals' = Append(arrivals, loc[w].arrived)
           /\ loc' = [loc EXCEPT ![w].items = items]
    /\ clock' = clock + 1
    /\ pc' = [pc EXCEPT ![w] = "append_saved"]
    /\ UNCHANGED <<historyLock, downloadLock, files, posters, catalog, tree,
                   seasonProcs, seasonWrote>>

\* HISTORY_LOCK is released and append_history returns
AppendRelease(w) ==
    /\ pc[w] = "append_saved"
    /\ historyLock' = historyLock \ {w}
    /\ pc' = [pc EXCEPT ![w] = "idle"]
    /\ loc' = [loc EXCEPT ![w] = LocInit]
    /\ UNCHANGED <<downloadLock, clock, historyFile, appended, arrivals,
                   files, posters, catalog, tree, seasonProcs, seasonWrote>>

\* latest_history(limit) is called; the caller waits for HISTORY_LOCK
LatestCall(w, limit) ==
    /\ pc[w] = "idle"
    /\ pc' = [pc EXCEPT ![w] = "latest_wait"]
    /\ loc' = [loc EXCEPT ![w] = [LocInit EXCEPT !.limit = limit]]
    /\ UNCHANGED <<clock, historyFile, historyLock, downloadLock, appended,
                   arrivals, files, posters, catalog, tree, seasonProcs, seasonWrote>>

\* with HISTORY_LOCK: items = load_history()
LatestLoad(w) ==
    /\ pc[w] = "latest_wait"
    /\ historyLock = {}
    /\ historyLock' = {w}
    /\ loc' = [loc EXCEPT ![w].items = load_history(historyFile),
                          ![w].seen = Len(appended)]
    /\ pc' = [pc EXCEPT ![w] = "latest_loaded"]
    /\ UNCHANGED <<downloadLock, clock, historyFile, appended, arrivals,
                   files, posters, catalog, tree, seasonProcs, seasonWrote>>

\* the value latest_history returns
LatestResultOldestFirstBug(items, limit) == SliceFrom(items, -limit)
LatestResult(items, limit) == Reversed(SliceFrom(items, -limit))

\* HISTORY_LOCK is released; return list(reversed(items[-limit:]))
LatestReturn(w) ==
    /\ pc[w] = "latest_loaded"
    /\ historyLock' = historyLock \ {w}
    /\ loc' = [loc EXCEPT ![w].ret = LatestResult(loc[w].items, loc[w].limit)]
    /\ pc' = [pc EXCEPT ![w] = "latest_done"]
    /\ UNCHANGED <<downloadLock, clock, historyFile, appended, arrivals,
                   files, posters, catalog, tree, seasonProcs, seasonWrote>>

\* the caller has consumed the result
LatestDone(w) ==
    /\ pc[w] = "latest_done"
    /\ pc' = [pc EXCEPT ![w] = "idle"]
    /\ loc' = [loc EXCEPT ![w] = LocInit]
    /\ UNCHANGED <<clock, historyFile, historyLock, downloadLock, appended,
                   arrivals, files, posters, catalog, tree, seasonProcs, seasonWrote>>

----------------------------------------------------------------------------
(* The download reconciler *)

RecencySlack == 1

\* media_snapshot(): the video files of DOWNLOAD_DIR with their mtimes
media_snapshot(dir) == [p \in {q \in DOMAIN dir : IsVideo(q)} |-> dir[p]]

\* max(paths, key=lambda p: after[p]); among equal mtimes Python keeps the
\* first in the directory's iteration order, which the OS does not fix
\* (LatestOldestBug: min in the place of max)
LatestOldestBug(paths, after) == {p \in paths : \A q \in paths : after[p] <= after[q]}
Latest(paths, after) == {p \in paths : \A q \in paths : after[q] <= after[p]}

NewFiles(before, after) == {p \in DOMAIN after : p \notin DOMAIN before}
UpdatedFilesNotOlderBug(before, after) ==
    {p \in DOMAIN after : p \in DOMAIN before /\ after[p] >= before[p]}
UpdatedFiles(before, after) ==
    {p \in DOMAIN after : p \in DOMAIN before /\ after[p] > before[p]}
RecentFilesNoWindowBug(after, started_at) == DOMAIN after
RecentFilesNoSlackBug(after, started_at) ==
    {p \in DOMAIN after : after[p] >= started_at}
RecentFiles(after, started_at) ==
    {p \in DOMAIN after : after[p] >= started_at - RecencySlack}

\* the tiers merged: the latest of everything new, updated or recent
DetectLatestOverallBug(before, after, started_at) ==
    Latest({p \in DOMAIN after :
               \/ p \notin DOMAIN before
               \/ after[p] > before[p]
               \/ after[p] >= started_at - RecencySlack}, after)

\* the first two tiers in the other order
DetectUpdatedFirstBug(before, after, started_at) ==
    IF UpdatedFiles(before, after) # {}
    THEN Latest(UpdatedFiles(before, after), after)
    ELSE IF NewFiles(before, after) # {}
    THEN Latest(NewFiles(before, after), after)
    ELSE IF RecentFiles(after, started_at) # {}
    THEN Latest(RecentFiles(after, started_at), after)
    ELSE {}

\* detect_downloaded_file(before, started_at), with after = media_snapshot():
\* the set of paths it may return; empty when it returns None
detect_downloaded_file(before, after, started_at) ==
    IF NewFiles(before, after) # {}
    THEN Latest(NewFiles(before, after), after)
    ELSE IF UpdatedFiles(before, after) # {}
    THEN Latest(UpdatedFiles(before, after), after)
    ELSE IF RecentFiles(after, started_at) # {}
    THEN Latest(RecentFiles(after, started_at), after)
    ELSE {}

\* download_episode_for_browser is entered
DownloadCall(w) ==
    /\ pc[w] = "idle"
    /\ pc' = [pc EXCEPT ![w] = "dl_entered"]
    /\ loc' = [loc EXCEPT ![w] = LocInit]
    /\ UNCHANGED <<clock, historyFile, historyLock, downloadLock, appended,
                   arrivals, files, posters, catalog, tree, seasonProcs, seasonWrote>>

\* a snapshot that touches every file it lists
DownloadSnapshotTouchesBug(w) ==
    /\ pc[w] = "dl_entered"
    /\ loc' = [loc EXCEPT ![w].before = media_snapshot(files),
                          ![w].started = clock]
    /\ files' = [p \in DOMAIN files |-> clock]
    /\ pc' = [pc EXCEPT ![w] = "dl_spawn"]
    /\ UNCHANGED <<clock, historyFile, historyLock, downloadLock, appended,
                   arrivals, posters, catalog, tree, seasonProcs, seasonWrote>>

\* before = media_snapshot(); started = time.time()
DownloadSnapshot(w) ==
    /\ pc[w] = "dl_entered"
    /\ loc' = [loc EXCEPT ![w].before = media_snapshot(files),
                          ![w].started = clock]
    /\ pc' = [pc EXCEPT ![w] = "dl_spawn"]
    /\ UNCHANGED <<clock, historyFile, historyLock, downloadLock, appended,
                   arrivals, files, posters, catalog, tree, seasonProcs, seasonWrote>>

\* subprocess.run(cmd, ...) starts the downloader, or raises
\* FileNotFoundError or another exception before any process runs
DownloadSpawn(w, outcome) ==
    /\ pc[w] = "dl_spawn"
    /\ \/ /\ outcome = "started"
          /\ pc' = [pc EXCEPT ![w] = "dl_running"]
          /\ loc' = loc
       \/ /\ outcome = "not_found"
          /\ pc' = [pc EXCEPT ![w] = "dl_returned"]
          /\ loc' = [loc EXCEPT ![w].ok = FALSE, ![w].path = "not_found",
                                ![w].msg = "ani-cli is not installed or not in PATH",
                                ![w].video = <<>>]
       \/ /\ outcome = "exception"
          /\ pc' = [pc EXCEPT ![w] = "dl_returned"]
          /\ loc' = [loc EXCEPT ![w].ok = FALSE, ![w].path = "exception",
                                ![w].msg = "str(exc)",
                                ![w].video = <<>>]
    /\ UNCHANGED <<clock, historyFile, historyLock, downloadLock, appended,
                   arrivals, files, posters, catalog, tree, seasonProcs, seasonWrote>>

\* the downloader process ends and subprocess.run returns its exit code
DownloadExit(w, returncode) ==
    /\ pc[w] = "dl_running"
    /\ loc' = [loc EXCEPT ![w].returncode = returncode]
    /\ pc' = [pc EXCEPT ![w] = "dl_exited"]
    /\ UNCHANGED <<clock, historyFile, historyLock, downloadLock, appended,
                   arrivals, files, posters, catalog, tree, seasonProcs, seasonWrote>>

\* detection without the test of the exit code
DownloadDetectIgnoresExitBug(w) ==
    /\ pc[w] = "dl_exited"
    /\ LET after == media_snapshot(files)
           found == detect_downloaded_file(loc[w].before, after, loc[w].started)
       IN  IF found = {}
           THEN loc' = [loc EXCEPT
                   ![w].after = after, ![w].path = "detected",
                   ![w].ok = FALSE,
                   ![w].msg = "download finished but output file was not detected",
                   ![w].video = <<>>]
           ELSE \E f \in found :
                   loc' = [loc EXCEPT
                       ![w].after = after, ![w].path = "detected",
                       ![w].ok = TRUE,
                       ![w].msg = "Downloaded episode",
                       ![w].video = <<f>>]
    /\ pc' = [pc EXCEPT ![w] = "dl_returned"]
    /\ UNCHANGED <<clock, historyFile, historyLock, downloadLock, appended,
                   arrivals, files, posters, catalog, tree, seasonProcs, seasonWrote>>

\* the rest of download_episode_for_browser: the exit code is tested, then
\* detect_downloaded_file(before, started) reads the directory
DownloadDetect(w) ==
    /\ pc[w] = "dl_exited"
    /\ IF loc[w].returncode # 0
       THEN loc' = [loc EXCEPT ![w].ok = FALSE, ![w].path = "exit_nonzero",
                               ![w].msg = "stderr or stdout or download failed",
                               ![w].video = <<>>]
       ELSE \E after \in {media_snapshot(files)} :
            \E found \in {detect_downloaded_file(loc[w].before, after, loc[w].started)} :
                IF found = {}
                THEN loc' = [loc EXCEPT
                        ![w].after = after, ![w].path = "detected",
                        ![w].ok = FALSE,
                        ![w].msg = "download finished but output file was not detected",
                        ![w].video = <<>>]
                ELSE \E f \in found :
                        loc' = [loc EXCEPT
                            ![w].after = after, ![w].path = "detected",
                            ![w].ok = TRUE,
                            ![w].msg = "Downloaded episode",
                            ![w].video = <<f>>]
    /\ pc' = [pc EXCEPT ![w] = "dl_returned"]
    /\ UNCHANGED <<clock, historyFile, historyLock, downloadLock, appended,
                   arrivals, files, posters, catalog, tree, seasonProcs, seasonWrote>>

\* an exception that leaves the with block without releasing DOWNLOAD_LOCK
DownloadSnapshotRaisesKeepsLockBug(w) ==
    /\ pc[w] = "dl_entered"
    /\ loc' = [loc EXCEPT ![w].ok = FALSE, ![w].path = "snapshot_raised",
                          ![w].video = <<>>]
    /\ pc' = [pc EXCEPT ![w] = "play_raised"]
    /\ UNCHANGED <<clock, historyFile, historyLock, downloadLock, appended,
                   arrivals, files, posters, catalog, tree, seasonProcs, seasonWrote>>

\* before = media_snapshot() raises (DOWNLOAD_DIR cannot be listed, or a file
\* is removed between is_file() and stat()): the exception leaves
\* download_episode_for_browser and the with block, which releases
\* DOWNLOAD_LOCK, and then do_POST
DownloadSnapshotRaises(w) ==
    /\ pc[w] = "dl_entered"
    /\ w \in downloadLock
    /\ downloadLock' = downloadLock \ {w}
    /\ loc' = [loc EXCEPT ![w].ok = FALSE, ![w].path = "snapshot_raised",
                          ![w].video = <<>>]
    /\ pc' = [pc EXCEPT ![w] = "play_raised"]
    /\ UNCHANGED <<clock, historyFile, historyLock, appended, arrivals, files,
                   posters, catalog, tree, seasonProcs, seasonWrote>>

\* the media_snapshot() of detect_downloaded_file raises after an exit with
\* code 0: the same way out
DownloadDetectRaises(w) ==
    /\ pc[w] = "dl_exited"
    /\ loc[w].returncode = 0
    /\ w \in downloadLock
    /\ downloadLock' = downloadLock \ {w}
    /\ loc' = [loc EXCEPT ![w].ok = FALSE, ![w].path = "detect_raised",
                          ![w].video = <<>>]
    /\ pc' = [pc EXCEPT ![w] = "play_raised"]
    /\ UNCHANGED <<clock, historyFile, historyLock, appended, arrivals, files,
                   posters, catalog, tree, seasonProcs, seasonWrote>>

\* the exception has left do_POST: the request ends without a reply
HandlerRaised(w) ==
    /\ pc[w] = "play_raised"
    /\ pc' = [pc EXCEPT ![w] = "idle"]
    /\ loc' = [loc EXCEPT ![w] = LocInit]
    /\ UNCHANGED <<clock, historyFile, historyLock, downloadLock, appended,
                   arrivals, files, posters, catalog, tree, seasonProcs, seasonWrote>>

\* the caller has taken the returned (ok, msg, video_file)
DownloadDone(w) ==
    /\ pc[w] = "dl_returned"
    /\ pc' = [pc EXCEPT ![w] = "idle"]
    /\ loc' = [loc EXCEPT ![w] = LocInit]
    /\ UNCHANGED <<clock, historyFile, historyLock, downloadLock, appended,
                   arrivals, files, posters, catalog, tree, seasonProcs, seasonWrote>>

\* another process (the downloader, the user) writes, touches or removes a
\* file of DOWNLOAD_DIR; the mtime it leaves is its own choice
DirWrite(name, mtime) ==
    /\ files' = [p \in DOMAIN files \cup {name} |->
                    IF p = name THEN mtime ELSE files[p]]
    /\ files' # files
    /\ seasonWrote' = seasonWrote \ {name}
    /\ UNCHANGED <<clock, historyFile, historyLock, downloadLock, appended,
                   arrivals, posters, catalog, tree, pc, loc, seasonProcs>>

DirRemove(name) ==
    /\ name \in DOMAIN files
    /\ files' = [p \in DOMAIN files \ {name} |-> files[p]]
    /\ seasonWrote' = seasonWrote \ {name}
    /\ UNCHANGED <<clock, historyFile, historyLock, downloadLock, appended,
                   arrivals, posters, catalog, tree, pc, loc, seasonProcs>>

----------------------------------------------------------------------------
(* The catalog and the total-episode inference *)

AnimeResult(id, name, episodes, image_url) ==
    [id |-> id, name |-> name, episodes |-> episodes, image_url |-> image_url]

\* the first result taken, whatever its name
BestMatchFirstResultBug(query, results) ==
    IF results = <<>> THEN <<>> ELSE <<results[1]>>

\* best_search_match(query, results): <<>> for None, else <<the match>>
best_search_match(query, results) ==
    LET wanted == normalize_title(query)
        exact == {i \in 1..Len(results) : normalize_title(results[i].name) = wanted}
        partial == {i \in 1..Len(results) :
                       \/ Contains(normalize_title(results[i].name), wanted)
                       \/ Contains(wanted, normalize_title(results[i].name))}
        First(S) == CHOOSE i \in S : \A j \in S : i <= j
    IN  IF results = <<>> THEN <<>>
        ELSE IF exact # {} THEN <<results[First(exact)]>>
        ELSE IF partial # {} THEN <<results[First(partial)]>>
        ELSE <<results[1]>>

\* the loop of infer_total_episodes over the history entries: the largest
\* episodes value recorded for the title, 0 when there is none
CachedEpisodesFirstBug(items, title) ==
    LET hits == {i \in 1..Len(items) :
                    /\ normalize_title(items[i].details.anime) = normalize_title(title)
                    /\ items[i].details.episodes > 0}
    IN  IF hits = {} THEN 0
        ELSE items[CHOOSE i \in hits : \A j \in hits : i <= j].details.episodes

RECURSIVE CachedEpisodes(_, _)
CachedEpisodes(items, title) ==
    IF items = <<>> THEN 0
    ELSE LET n == Len(items)
             cached == CachedEpisodes(SubSeq(items, 1, n - 1), title)
             item == items[n]
         IN  IF /\ normalize_title(item.details.anime) = normalize_title(title)
                /\ item.details.episodes > cached
             THEN item.details.episodes
             ELSE cached

Modes == <<"dub", "sub">>

\* a catalog that cannot be reached
NoCatalog == [mode \in {"dub", "sub"} |-> [ok |-> FALSE, results |-> <<>>]]

\* search_anime(query, mode) against the catalog cat: a blank query is
\* answered [] without a request; a request fails (an exception) or gives
\* the entries that have episodes in this mode
SearchIsRequest(query) == Strip(query) # <<>>

\* the for-loop of infer_total_episodes over ("dub", "sub"), from mode k on:
\* [episodes, searched], searched being the modes a request was made for
RECURSIVE SearchEpisodes(_, _, _)
SearchEpisodes(title, cat, k) ==
    IF k > Len(Modes) THEN [episodes |-> 0, searched |-> <<>>]
    ELSE LET mode == Modes[k]
             asked == IF SearchIsRequest(title) THEN <<mode>> ELSE <<>>
             rest == SearchEpisodes(title, cat, k + 1)
             results == IF SearchIsRequest(title) THEN cat[mode].results ELSE <<>>
             match == best_search_match(title, results)
         IN  IF SearchIsRequest(title) /\ ~cat[mode].ok
             THEN [episodes |-> rest.episodes, searched |-> asked \o rest.searched]
             ELSE IF match # <<>>
             THEN [episodes |-> match[1].episodes, searched |-> asked]
             ELSE [episodes |-> rest.episodes, searched |-> asked \o rest.searched]

\* infer_total_episodes(title) on the loaded history and the catalog
infer_total_episodes(items, title, cat) ==
    LET cached == CachedEpisodes(items, title)
    IN  IF cached > 0
        THEN [episodes |-> cached, searched |-> <<>>]
        ELSE SearchEpisodes(title, cat, 1)

----------------------------------------------------------------------------
(* The poster cache *)

IsAlnum(c) ==
    \/ IsDigit(c)
    \/ \E i \in 1..Len(UpperChars) : UpperChars[i] = c \/ LowerChars[i] = c

\* re.sub(r"[^a-zA-Z0-9]+", "-", s)
RECURSIVE DashRuns(_)
DashRuns(s) ==
    IF s = <<>> THEN <<>>
    ELSE IF ~IsAlnum(Head(s))
         THEN IF Len(s) > 1 /\ ~IsAlnum(s[2])
              THEN DashRuns(Tail(s))
              ELSE <<"-">> \o DashRuns(Tail(s))
         ELSE <<Head(s)>> \o DashRuns(Tail(s))

\* s.strip("-")
StripDashes(s) ==
    LET keep == {i \in 1..Len(s) : s[i] # "-"}
    IN  IF keep = {} THEN <<>>
        ELSE SubSeq(s, CHOOSE i \in keep : \A j \in keep : i <= j,
                       CHOOSE i \in keep : \A j \in keep : i >= j)

\* the slug of ensure_local_poster
Slug(title) ==
    LET x == StripDashes(DashRuns(Lower(Strip(title))))
    IN  IF x = <<>> THEN <<"p","o","s","t","e","r">> ELSE x

\* base = f"{slug}-{sha1(title)[:8]}"; the digest of the title, taken as
\* written, is modelled by the title itself
PosterBase(title) == <<Slug(title), title>>

\* "/poster/" + quote(name) for the file <<base, ext>>; <<>> is ""
PosterUrl(file) == file

\* what the cover lookup and the image fetch of one ensure_local_poster call
\* come to: no image, or an image of a content type
NetOutcomes == {"none", ".jpg"}

\* ensure_local_poster(title, image_url) on the poster directory dir when
\* the network gives net: the possible [url, posters]; which of several
\* files that match base.* glob() yields first is not fixed
ensure_local_poster(title, image_url, dir, net) ==
    LET base == PosterBase(title)
        existing == {f \in dir : f[1] = base}
    IN  IF existing # {}
        THEN {[url |-> PosterUrl(f), posters |-> dir] : f \in existing}
        ELSE IF net = "none"
        THEN {[url |-> <<>>, posters |-> dir]}
        ELSE {[url |-> PosterUrl(<<base, net>>),
               posters |-> dir \cup {<<base, net>>}]}

----------------------------------------------------------------------------
(* The library indexer *)

\* the character classes \d and \s of the pattern
InClass(c, class) == IF class = "\\d" THEN IsDigit(c) ELSE IsSpace(c)

\* the least i in 1..Len(s)+1 such that s[i], ..., s[Len(s)] are of the class
TrailingRunStart(s, class) ==
    LET starts == {i \in 1..(Len(s) + 1) : \A j \in i..Len(s) : InClass(s[j], class)}
    IN  CHOOSE i \in starts : \A j \in starts : i <= j

EpisodeWordLower == <<"e","p","i","s","o","d","e">>

\* ^(?P<title>.+?)\s+Episode\s+(?P<ep>\d+) with re.IGNORECASE, matched
\* against all of stem: [matched, title, ep], the groups as strings
EpisodeNameFullMatch(stem) ==
    LET n == Len(stem)
        d == TrailingRunStart(stem, "\\d")               \* (?P<ep>\d+)$
        beforeDigits == SubSeq(stem, 1, d - 1)
        s2 == TrailingRunStart(beforeDigits, "\\s")     \* \s+
        e == s2 - Len(EpisodeWordLower)                   \* Episode
        prefix == SubSeq(stem, 1, e - 1)
        s1 == TrailingRunStart(prefix, "\\s")            \* \s+
        titleEnd == IF s1 > 1 THEN s1 - 1 ELSE 1          \* .+? is not empty
        title == SubSeq(stem, 1, titleEnd)
        matched ==
            /\ d <= n
            /\ s2 <= d - 1
            /\ e >= 1
            /\ Lower(SubSeq(stem, e, s2 - 1)) = EpisodeWordLower
            /\ e >= 3                    \* one title character, one space
            /\ s1 <= e - 1               \* a space ends the prefix
            /\ \A i \in 1..titleEnd : stem[i] # "\n"
    IN  IF matched
        THEN [matched |-> TRUE, title |-> title, ep |-> SubSeq(stem, d, n)]
        ELSE [matched |-> FALSE, title |-> <<>>, ep |-> <<>>]

\* EPISODE_NAME_RE.match(stem): the $ also matches before a final newline
EpisodeNameMatch(stem) ==
    IF stem # <<>> /\ stem[Len(stem)] = "\n"
    THEN EpisodeNameFullMatch(SubSeq(stem, 1, Len(stem) - 1))
    ELSE EpisodeNameFullMatch(stem)

\* the title and episode list_library_groups derives from one file name
ParseAlwaysEpisodeOneBug(name) ==
    LET m == EpisodeNameMatch(Stem(name))
    IN  IF m.matched THEN [title |-> Strip(m.title), episode |-> 1]
        ELSE [title |-> Stem(name), episode |-> 1]

ParseFileName(name) ==
    LET m == EpisodeNameMatch(Stem(name))
    IN  IF m.matched
        THEN [title |-> Strip(m.title), episode |-> IntOf(m.ep)]
        ELSE [title |-> Stem(name), episode |-> 1]


\* the file names of the model
ShowA == <<"S","h","o","w"," ","A">>
Sp == <<" ">>
EpisodeWord == <<"E","p","i","s","o","d","e">>
ExtMp4 == <<".","m","p","4">>
ExtMkv == <<".","m","k","v">>

FileShowA3 == ShowA \o Sp \o EpisodeWord \o Sp \o <<"3">> \o ExtMp4
FileShowA12 == ShowA \o Sp \o Sp \o EpisodeWordLower \o Sp \o <<"1","2">>
                   \o <<".","M","K","V">>
FileShowA0 == ShowA \o Sp \o EpisodeWord \o Sp \o <<"0">> \o ExtMp4
FileClip == <<"R","a","n","d","o","m"," ","C","l","i","p">> \o ExtMkv

LibraryNames == {FileShowA3, FileShowA12, FileShowA0, FileClip}

\* a name with nothing before "Episode", and two names that are not videos
FileEpisode5 == EpisodeWord \o Sp \o <<"5">> \o ExtMp4
FileShowA7Txt == ShowA \o Sp \o EpisodeWord \o Sp \o <<"7">> \o <<".","t","x","t">>
FileShowA9Plain == ShowA \o Sp \o EpisodeWord \o Sp \o <<"9">>
IndexNames ==
    {FileShowA3, FileShowA12, FileClip, FileEpisode5, FileShowA7Txt, FileShowA9Plain}

\* the parse of each file name of the model, computed once
RECURSIVE ParseTable(_)
ParseTable(names) ==
    IF names = {} THEN <<>>
    ELSE LET name == CHOOSE x \in names : TRUE
         IN  (name :> ParseFileName(name)) @@ ParseTable(names \ {name})
ParsedNames == ParseTable(LibraryNames \cup IndexNames)
ParseName(name) == ParsedNames[name]

\* the video files of the directory, as list_library_groups filters them
MediaFiles(dir) == {f \in DOMAIN dir : IsVideo(f)}

\* the orders DOWNLOAD_DIR.iterdir() may yield the files in
IterOrders(S) ==
    {o \in [1..Cardinality(S) -> S] : \A i, j \in DOMAIN o : i # j => o[i] # o[j]}

\* No two names of LibraryNames give the same title and episode, so the
\* result depends on the iteration order only through the order in which
\* the groups are created. One order per group order is kept: the files of
\* a group follow each other, by episode.
GroupedOrders(S) ==
    {o \in IterOrders(S) :
        \A i, j \in DOMAIN o :
            (i < j /\ ParsedNames[o[i]].title = ParsedNames[o[j]].title) =>
                /\ ParsedNames[o[i]].episode < ParsedNames[o[j]].episode
                /\ \A k \in i..j : ParsedNames[o[k]].title = ParsedNames[o[i]].title}

\* the titles in the order their groups are created (first file seen)
RECURSIVE GroupTitles(_)
GroupTitles(order) ==
    IF order = <<>> THEN <<>>
    ELSE LET n == Len(order)
             sofar == GroupTitles(SubSeq(order, 1, n - 1))
             title == ParseName(order[n]).title
         IN  IF \E i \in 1..Len(sofar) : sofar[i] = title
             THEN sofar ELSE Append(sofar, title)

\* sorted(set(...)) of a set of numbers
SortedSeq(S) ==
    CHOOSE q \in [1..Cardinality(S) -> S] : \A i, j \in DOMAIN q : i < j => q[i] < q[j]

\* details.get(key) for the keys "poster_url" and "image_url": <<>> when
\* the entry records none
Recorded(details, key) ==
    IF key = "image_url"
    THEN IF details.image_url = "" THEN <<>> ELSE <<details.image_url>>
    ELSE details.poster_url

\* the first history entry (newest first) that records a value for the title
FirstRecorded(history_items, title, key) ==
    LET hits == {i \in 1..Len(history_items) :
                    /\ Strip(history_items[i].details.anime) = title
                    /\ title # <<>>
                    /\ Recorded(history_items[i].details, key) # <<>>}
    IN  IF hits = {} THEN <<>>
        ELSE Recorded(history_items[CHOOSE i \in hits : \A j \in hits : i <= j].details,
                      key)

\* the correction of total_episodes by the episodes on disk
ReconcileNeverRaiseBug(total_episodes, downloaded_sorted) == total_episodes
ReconcileTotal(total_episodes, downloaded_sorted) ==
    LET top == IF downloaded_sorted # <<>>
               THEN downloaded_sorted[Len(downloaded_sorted)]   \* max(...)
               ELSE 1
    IN  IF total_episodes < top THEN top ELSE total_episodes

\* one group of list_library_groups, from the files in iteration order
LibraryGroup(dir, order, title) ==
    LET mine == {i \in 1..Len(order) : ParseName(order[i]).title = title}
        episodes == {ParseName(order[i]).episode : i \in mine}
        lastFor(ep) == CHOOSE i \in mine :
                          /\ ParseName(order[i]).episode = ep
                          /\ \A j \in mine :
                                 ParseName(order[j]).episode = ep => j <= i
        latest == CHOOSE m \in {dir[order[i]] : i \in mine} \cup {0} :
                      \A i \in mine : dir[order[i]] <= m
    IN  [title |-> title,
         downloaded_episodes |-> SortedSeq(episodes),
         files_by_episode |-> [ep \in episodes |-> order[lastFor(ep)]],
         latest_mtime |-> latest]

\* the entries left in the order the groups were created
SortSkippedBug(entries) == entries

\* result.sort(key=latest_mtime, reverse=True): a stable sort
SortByMtimeDesc(entries) ==
    LET n == Len(entries)
        perm == CHOOSE q \in [1..n -> 1..n] :
                    /\ \A i, j \in 1..n : i # j => q[i] # q[j]
                    /\ \A i, j \in 1..n : i < j =>
                           \/ entries[q[i]].latest_mtime > entries[q[j]].latest_mtime
                           \/ /\ entries[q[i]].latest_mtime = entries[q[j]].latest_mtime
                              /\ q[i] < q[j]
    IN  [i \in 1..n |-> entries[perm[i]]]

\* list_library_groups(), entered with HISTORY_LOCK free; order is the
\* iteration order of the directory, net what the network gives for each
\* title's poster
ListLibrary(w, order, net) ==
    /\ pc[w] = "idle"
    /\ historyLock = {}
    /\ \E items \in {load_history(historyFile)}, titles \in {GroupTitles(order)} :
       \E history_items \in {LatestResult(items, 300)},
          titleSet \in {{titles[i] : i \in 1..Len(titles)}} :
       \E recorded \in {[t \in titleSet |->
                            FirstRecorded(history_items, t, "poster_url")]},
          image \in {[t \in titleSet |->
                            FirstRecorded(history_items, t, "image_url")]},
          inferred \in {[t \in titleSet |->
                            infer_total_episodes(items, t, catalog)]},
          group \in {[t \in titleSet |-> LibraryGroup(files, order, t)]} :
       \E fetched \in {[t \in titleSet |->
                           IF recorded[t] # <<>>
                           THEN {[url |-> recorded[t], posters |-> posters]}
                           ELSE ensure_local_poster(t, image[t], posters, net[t])]} :
       \E poster \in [titleSet -> UNION {fetched[t] : t \in titleSet}] :
          /\ \A t \in titleSet : poster[t] \in fetched[t]
          /\ posters' = posters \cup UNION {poster[t].posters : t \in titleSet}
          /\ \E result \in {[i \in 1..Len(titles) |->
                   [title |-> titles[i],
                    poster_url |-> poster[titles[i]].url,
                    total_episodes |->
                        ReconcileTotal(inferred[titles[i]].episodes,
                                       group[titles[i]].downloaded_episodes),
                    downloaded_episodes |-> group[titles[i]].downloaded_episodes,
                    files_by_episode |-> group[titles[i]].files_by_episode,
                    downloaded_count |-> Len(group[titles[i]].downloaded_episodes),
                    latest_mtime |-> group[titles[i]].latest_mtime]]} :
                loc' = [loc EXCEPT ![w] = [LocInit EXCEPT
                           !.ret = SortByMtimeDesc(result),
                           !.inferred = [t \in titleSet |-> inferred[t].episodes],
                           !.searched = [t \in titleSet |-> inferred[t].searched]]]
    /\ pc' = [pc EXCEPT ![w] = "library_done"]
    /\ UNCHANGED <<clock, historyFile, historyLock, downloadLock, appended,
                   arrivals, files, catalog, tree, seasonProcs, seasonWrote>>

\* the caller (GET /api/library) has sent the result
LibraryDone(w) ==
    /\ pc[w] = "library_done"
    /\ pc' = [pc EXCEPT ![w] = "idle"]
    /\ loc' = [loc EXCEPT ![w] = LocInit]
    /\ UNCHANGED <<clock, historyFile, historyLock, downloadLock, appended,
                   arrivals, files, posters, catalog, tree, seasonProcs, seasonWrote>>

----------------------------------------------------------------------------
(* HistorySpec: worker threads calling append_history and latest_history *)

\* the limits asked for: the default 10 (on a log of at most 10 entries the
\* 300 of list_library_groups reads the same) and two that cut the log
Limits == {1, 3, HistoryLimit}

HistoryEvents == {"play_downloaded_file"}

HistoryInit ==
    /\ clock = 0
    /\ historyFile = [kind |-> "missing", items |-> <<>>]
    /\ historyLock = {}
    /\ downloadLock = {}
    /\ seasonProcs = 0
    /\ seasonWrote = {}
    /\ appended = <<>>
    /\ arrivals = <<>>
    /\ files = <<>>
    /\ posters = {}
    /\ catalog = NoCatalog
    /\ tree = NoTree
    /\ pc = [w \in Workers |-> "idle"]
    /\ loc = [w \in Workers |-> LocInit]

HistoryNext ==
    \E w \in Workers :
        \/ \E e \in HistoryEvents :
               AppendCall(w, e, Details(ShowA, 0, 0, <<>>, "", <<>>))
        \/ AppendAcquire(w)
        \/ AppendLoad(w)
        \/ AppendSave(w)
        \/ AppendRelease(w)
        \/ \E limit \in Limits : LatestCall(w, limit)
        \/ LatestLoad(w)
        \/ LatestReturn(w)
        \/ LatestDone(w)

HistorySpec == HistoryInit /\ [][HistoryNext]_vars

\* the position of entry e in the order of the appends
AppendPos(e) == CHOOSE p \in 1..Len(appended) : appended[p] = e

\* C2: whatever the number of append_history calls and their interleaving
\* across worker threads, the persisted history log never holds more than
\* 10 entries.
C2_HistoryAtMostTen ==
    historyFile.kind = "list" => Len(historyFile.items) <= 10

\* more than 10 appends have been saved, the log is full and another worker
\* is waiting to append
C2_Witness ==
    /\ Len(appended) > 10
    /\ historyFile.kind = "list"
    /\ Len(historyFile.items) = 10
    /\ \E w \in Workers : pc[w] = "append_wait"

\* C3: after the appends e1..en (in the order they were saved) the persisted
\* log is exactly the last min(n, 10) of them, in append order; before the
\* first append the log is empty.
C3_HistoryIsLastTenAppends ==
    LET n == Len(appended)
        items == load_history(historyFile)
    IN  /\ (historyFile.kind # "list") => n = 0
        /\ (historyFile.kind = "list") => items = historyFile.items
        /\ Len(items) = (IF n < 10 THEN n ELSE 10)
        /\ \A i \in 1..Len(items) : items[i] = appended[n - Len(items) + i]

\* twelve appends: the two oldest are gone, the log starts at the third
C3_Witness ==
    /\ Len(appended) = 12
    /\ historyFile.kind = "list"
    /\ Len(historyFile.items) = 10
    /\ historyFile.items[1] = appended[3]
    /\ historyFile.items[10] = appended[12]

\* C4: latest_history(limit) returns entries newest-first: of any two
\* returned entries the one appended later comes earlier in the result, and
\* the first returned entry is the one appended last before the log was read.
C4_LatestHistoryNewestFirst ==
    \A w \in Workers :
        pc[w] = "latest_done" =>
            LET r == loc[w].ret
            IN  /\ \A i \in 1..Len(r) :
                       \E p \in 1..Len(appended) : appended[p] = r[i]
                /\ \A i, j \in 1..Len(r) :
                       i < j => AppendPos(r[i]) > AppendPos(r[j])
                /\ r # <<>> => r[1] = appended[loc[w].seen]

\* latest_history(10) has returned ten entries of a log that saw more than
\* ten appends
C4_Witness ==
    \E w \in Workers :
        /\ pc[w] = "latest_done"
        /\ loc[w].limit = 10
        /\ Len(loc[w].ret) = 10
        /\ loc[w].seen > 10
        /\ loc[w].ret[1] = appended[loc[w].seen]

----------------------------------------------------------------------------
(* DetectSpec: one call of download_episode_for_browser at a time, on any   *)
(* directory, with any change to the directory while the downloader runs    *)

DetectNames == {FileShowA3, FileShowA12, FileClip}

\* every directory content over a set of names
Dirs(names) == UNION {[present -> Times] : present \in SUBSET names}

DetectInit ==
    /\ clock \in Times
    /\ files \in Dirs(DetectNames)
    /\ posters = {}
    /\ catalog = NoCatalog
    /\ historyFile = [kind |-> "missing", items |-> <<>>]
    /\ historyLock = {}
    /\ downloadLock = {}
    /\ seasonProcs = 0
    /\ seasonWrote = {}
    /\ appended = <<>>
    /\ arrivals = <<>>
    /\ tree = NoTree
    /\ pc = [w \in Workers |-> "idle"]
    /\ loc = [w \in Workers |-> LocInit]

DetectNext ==
    \/ DownloadCall(1)
    \/ DownloadSnapshot(1)
    \/ \E outcome \in {"started", "not_found", "exception"} :
           DownloadSpawn(1, outcome)
    \/ pc[1] = "dl_running" /\ \E name \in DetectNames, mtime \in Times :
           DirWrite(name, mtime)
    \/ pc[1] = "dl_running" /\ \E name \in DetectNames : DirRemove(name)
    \/ \E returncode \in {0, 1} : DownloadExit(1, returncode)
    \/ DownloadDetect(1)
    \/ DownloadDone(1)

DetectSpec == DetectInit /\ [][DetectNext]_vars

\* a call of download_episode_for_browser that got as far as
\* detect_downloaded_file and has returned
Detected(w) == pc[w] = "dl_returned" /\ loc[w].path = "detected"

\* C5: if exactly one media file f is in the directory after the invocation
\* and absent from the before-snapshot, detect_downloaded_file returns f,
\* whatever the modification times of the other files.
C5_SingleNewFileIsReturned ==
    \A w \in Workers :
        Detected(w) =>
            LET before == loc[w].before
                after == loc[w].after
            IN  \A f \in DOMAIN after :
                    ( /\ f \notin DOMAIN before
                      /\ \A g \in DOMAIN after \ {f} : g \in DOMAIN before )
                    => loc[w].video = <<f>>

\* one new file is returned although an older file was updated to a later
\* modification time than the new file's
C5_Witness ==
    \E w \in Workers :
        /\ Detected(w)
        /\ \E f, g \in DOMAIN loc[w].after :
              /\ f \notin DOMAIN loc[w].before
              /\ \A h \in DOMAIN loc[w].after \ {f} : h \in DOMAIN loc[w].before
              /\ g \in DOMAIN loc[w].before
              /\ loc[w].after[g] > loc[w].before[g]
              /\ loc[w].after[g] > loc[w].after[f]
              /\ loc[w].video = <<f>>

\* C6: if no file is new and exactly one file's modification time strictly
\* increased, detect_downloaded_file returns that file, never an unchanged
\* one, also when an unchanged file is inside the recency window or has a
\* later modification time.
C6_SingleUpdatedFileIsReturned ==
    \A w \in Workers :
        Detected(w) =>
            LET before == loc[w].before
                after == loc[w].after
            IN  \A f \in DOMAIN after :
                    ( /\ \A g \in DOMAIN after : g \in DOMAIN before
                      /\ after[f] > before[f]
                      /\ \A g \in DOMAIN after \ {f} : after[g] <= before[g] )
                    => loc[w].video = <<f>>

\* the updated file is returned although an unchanged file inside the
\* recency window has a later modification time
C6_Witness ==
    \E w \in Workers :
        /\ Detected(w)
        /\ \E f, g \in DOMAIN loc[w].after :
              /\ \A h \in DOMAIN loc[w].after : h \in DOMAIN loc[w].before
              /\ loc[w].after[f] > loc[w].before[f]
              /\ \A h \in DOMAIN loc[w].after \ {f} :
                     loc[w].after[h] <= loc[w].before[h]
              /\ g # f
              /\ loc[w].after[g] = loc[w].before[g]
              /\ loc[w].after[g] > loc[w].after[f]
              /\ loc[w].after[g] >= loc[w].started - 1
              /\ loc[w].video = <<f>>

\* C7: if after the invocation no file is new, no file's modification time
\* increased and no file was modified at or after the invocation start
\* minus one second, detect_downloaded_file returns None and
\* download_episode_for_browser fails with the 'output file was not
\* detected' message.
C7_NothingDetectedIsReported ==
    \A w \in Workers :
        Detected(w) =>
            LET before == loc[w].before
                after == loc[w].after
            IN  ( \A f \in DOMAIN after :
                      /\ f \in DOMAIN before
                      /\ after[f] <= before[f]
                      /\ after[f] < loc[w].started - 1 )
                => /\ loc[w].video = <<>>
                   /\ loc[w].ok = FALSE
                   /\ loc[w].msg = "download finished but output file was not detected"

\* the downloader exited with 0, left an old file untouched, and the call
\* failed with the message
C7_Witness ==
    \E w \in Workers :
        /\ Detected(w)
        /\ loc[w].returncode = 0
        /\ DOMAIN loc[w].after # {}
        /\ \A f \in DOMAIN loc[w].after :
              /\ f \in DOMAIN loc[w].before
              /\ loc[w].after[f] <= loc[w].before[f]
              /\ loc[w].after[f] < loc[w].started - 1
        /\ loc[w].video = <<>>
        /\ ~loc[w].ok
        /\ loc[w].msg = "download finished but output file was not detected"

----------------------------------------------------------------------------
(* LibrarySpec: list_library_groups on any directory over LibraryNames, a   *)
(* history log as earlier requests left it, and a catalog                   *)

ShowAVariant == <<" ","s","h","o","w"," ","\t","a"," ">>
RandomClip == Stem(FileClip)
OtherShow == <<"O","t","h","e","r">>

\* a download_season entry (it records episodes) and a play_episode entry
SeasonEntry(time, anime, episodes, poster_url) ==
    HistoryEntry(time, "download_season",
                 Details(anime, episodes, 0, <<>>, "", poster_url))
PlayEntry(time, anime, episode, filename) ==
    HistoryEntry(time, "play_episode",
                 Details(anime, 0, episode, filename, "", <<>>))

CatalogFails == [ok |-> FALSE, results |-> <<>>]
CatalogGives(results) == [ok |-> TRUE, results |-> results]

\* the history log and the catalog list_library_groups meets
LibraryScenarios ==
    { \* nothing known: the total falls back to the episodes on disk
      <<[kind |-> "missing", items |-> <<>>], NoCatalog>>,
      \* a recorded count and poster; the catalog would say otherwise
      <<save_history(<<SeasonEntry(0, ShowA, 12, <<PosterBase(ShowA), ".jpg">>)>>),
        [mode \in {"dub", "sub"} |->
            CatalogGives(<<AnimeResult("id2", ShowA, 24, "")>>)]>>,
      \* two recorded counts, the larger under another spelling of the title
      <<save_history(<<SeasonEntry(0, ShowA, 2, <<>>),
                       SeasonEntry(1, ShowAVariant, 12, <<>>)>>), NoCatalog>>,
      \* the larger count is the older entry
      <<save_history(<<SeasonEntry(0, ShowAVariant, 12, <<>>),
                       SeasonEntry(1, ShowA, 2, <<>>)>>),
        [mode \in {"dub", "sub"} |->
            CatalogGives(<<AnimeResult("id2", ShowA, 26, "")>>)]>>,
      \* a small recorded count
      <<save_history(<<SeasonEntry(0, ShowAVariant, 2, <<>>)>>),
        [mode \in {"dub", "sub"} |->
            IF mode = "dub"
            THEN CatalogGives(<<>>)
            ELSE CatalogGives(<<AnimeResult("id1", OtherShow, 5, "")>>)]>>,
      \* no recorded count; dub search: the exact match is not the first
      <<save_history(<<PlayEntry(0, ShowA, 3, FileShowA3)>>),
        [mode \in {"dub", "sub"} |->
            IF mode = "dub"
            THEN CatalogGives(<<AnimeResult("id1", OtherShow, 5, ""),
                                AnimeResult("id2", ShowA, 24, "")>>)
            ELSE CatalogGives(<<AnimeResult("id2", ShowA, 26, "")>>)]>>,
      \* no recorded count; no name is the title, two names contain a title
      \* or are contained in one
      <<[kind |-> "missing", items |-> <<>>],
        [mode \in {"dub", "sub"} |->
            IF mode = "dub"
            THEN CatalogGives(<<AnimeResult("id1", OtherShow, 5, ""),
                                AnimeResult("id3", <<"C","l","i","p">>, 7, ""),
                                AnimeResult("id4", ShowA \o <<" ","I","I">>, 13, "")>>)
            ELSE CatalogGives(<<AnimeResult("id2", ShowA, 26, "")>>)]>>,
      \* no recorded count for Show A; the dub search fails
      <<save_history(<<SeasonEntry(0, RandomClip, 5, <<>>),
                       PlayEntry(1, ShowA, 3, FileShowA3)>>),
        [mode \in {"dub", "sub"} |->
            IF mode = "dub"
            THEN CatalogFails
            ELSE CatalogGives(<<AnimeResult("id2", ShowAVariant, 1, "")>>)]>> }

LibraryInit ==
    /\ clock = 0
    /\ files \in Dirs(LibraryNames)
    /\ \E scenario \in LibraryScenarios :
          historyFile = scenario[1] /\ catalog = scenario[2]
    /\ posters = {}
    /\ historyLock = {}
    /\ downloadLock = {}
    /\ seasonProcs = 0
    /\ seasonWrote = {}
    /\ appended = <<>>
    /\ arrivals = <<>>
    /\ tree = NoTree
    /\ pc = [w \in Workers |-> "idle"]
    /\ loc = [w \in Workers |-> LocInit]

LibraryNext ==
    \/ \E order \in GroupedOrders(MediaFiles(files)) :
           \E net \in [{ParseName(f).title : f \in MediaFiles(files)} -> NetOutcomes] :
               ListLibrary(1, order, net)
    \/ LibraryDone(1)

LibrarySpec == LibraryInit /\ [][LibraryNext]_vars

\* the entries list_library_groups has returned to worker w
Returned(w) ==
    IF pc[w] = "library_done" THEN {loc[w].ret[i] : i \in 1..Len(loc[w].ret)} ELSE {}

\* C8: for every entry returned by list_library_groups, for every content
\* of the download directory and of the history log, every number in
\* downloaded_episodes lies in the range 1..total_episodes.
C8_DownloadedWithinTotal ==
    \A w \in Workers : \A entry \in Returned(w) :
        \A i \in 1..Len(entry.downloaded_episodes) :
            /\ 1 <= entry.downloaded_episodes[i]
            /\ entry.downloaded_episodes[i] <= entry.total_episodes

\* C9: for every library entry, total_episodes is the larger of the
\* inferred episode count and the highest downloaded episode number: an
\* inferred count below the highest episode on disk is raised to it, an
\* inferred count at or above it is kept.
C9_TotalIsLargerOfInferredAndDisk ==
    \A w \in Workers : \A entry \in Returned(w) :
        LET inferred == loc[w].inferred[entry.title]
            downloaded == {entry.downloaded_episodes[i] :
                              i \in 1..Len(entry.downloaded_episodes)}
            top == CHOOSE m \in downloaded : \A ep \in downloaded : ep <= m
        IN  /\ downloaded # {}
            /\ inferred < top => entry.total_episodes = top
            /\ inferred >= top => entry.total_episodes = inferred

\* one listing with an entry whose inferred count was raised to the highest
\* episode on disk and an entry whose larger inferred count was kept
C9_Witness ==
    \E w \in Workers : \E raised, kept \in Returned(w) :
        /\ loc[w].inferred[raised.title] > 0
        /\ loc[w].inferred[raised.title] <
               raised.downloaded_episodes[Len(raised.downloaded_episodes)]
        /\ raised.total_episodes =
               raised.downloaded_episodes[Len(raised.downloaded_episodes)]
        /\ loc[w].inferred[kept.title] >
               kept.downloaded_episodes[Len(kept.downloaded_episodes)]
        /\ kept.total_episodes = loc[w].inferred[kept.title]

\* the positive episodes values the history log records for the title,
\* titles compared after normalization
RecordedCounts(title) ==
    LET items == load_history(historyFile)
    IN  {items[i].details.episodes : i \in
            {j \in 1..Len(items) :
                /\ normalize_title(items[j].details.anime) = normalize_title(title)
                /\ items[j].details.episodes > 0}}

\* C10: whenever the history log holds at least one entry whose anime title
\* matches the requested title after normalization and records a positive
\* episodes value, infer_total_episodes returns the largest such recorded
\* value and issues no catalog search.
C10_RecordedCountIsUsedWithoutSearch ==
    \A w \in Workers :
        pc[w] = "library_done" =>
            \A title \in DOMAIN loc[w].inferred :
                RecordedCounts(title) # {} =>
                    /\ loc[w].inferred[title] \in RecordedCounts(title)
                    /\ \A n \in RecordedCounts(title) : n <= loc[w].inferred[title]
                    /\ loc[w].searched[title] = <<>>

\* the log records two counts for the title, the larger one under another
\* spelling and not in the newest entry; the catalog, which would answer
\* with a third count, was not asked
C10_Witness ==
    \E w \in Workers :
        /\ pc[w] = "library_done"
        /\ ShowA \in DOMAIN loc[w].inferred
        /\ RecordedCounts(ShowA) = {2, 12}
        /\ historyFile.items[Len(historyFile.items)].details.episodes = 2
        /\ \E i \in 1..Len(historyFile.items) :
               /\ historyFile.items[i].details.episodes = 12
               /\ historyFile.items[i].details.anime # ShowA
        /\ catalog["dub"].ok
        /\ catalog["dub"].results # <<>>
        /\ loc[w].inferred[ShowA] = 12
        /\ loc[w].searched[ShowA] = <<>>


----------------------------------------------------------------------------
(* POST /api/play_episode *)

\* the JSON body; index and episode are <<>> when int() raises on them and
\* <<n>> when it gives n
\* the values json.loads gives for a field of the payload: an integer; a
\* float, as its integral part and whether a fraction follows it; a string;
\* null, which is also what payload.get gives for an absent key
JInt(n) == [type |-> "int", value |-> n]
JFloat(whole, fraction) == [type |-> "float", value |-> whole, fraction |-> fraction]
JStr(text) == [type |-> "str", text |-> text]
JNull == [type |-> "null"]

\* the text int() accepts: an optional sign and decimal digits
Unsigned(text) ==
    IF text # <<>> /\ text[1] \in {"+", "-"} THEN Tail(text) ELSE text

IsIntText(text) ==
    /\ Unsigned(text) # <<>>
    /\ \A i \in 1..Len(Unsigned(text)) : IsDigit(Unsigned(text)[i])

\* int(payload.get(...)) inside try/except: <<n>>, or <<>> when int raises.
\* int of a float drops the fraction; int of a string parses the stripped
\* text; int(None) raises TypeError.
IntOfValue(value) ==
    IF value.type = "int" THEN <<value.value>>
    ELSE IF value.type = "float" THEN <<value.value>>
    ELSE IF value.type = "str"
    THEN IF IsIntText(Strip(value.text))
         THEN IF Strip(value.text)[1] = "-"
              THEN <<0 - IntOf(Unsigned(Strip(value.text)))>>
              ELSE <<IntOf(Unsigned(Strip(value.text)))>>
         ELSE <<>>
    ELSE <<>>

Payload(query, anime, image_url, index, episode) ==
    [query |-> query, anime |-> anime, image_url |-> image_url,
     index |-> index, episode |-> episode]

\* the checks of do_POST in the order they are made: the error of the 400
\* reply, "" when the request passes
PlayError(payload) ==
    IF IntOfValue(payload.index) = <<>> THEN "invalid index"
    ELSE IF Strip(payload.query) = <<>> THEN "query required"
    ELSE IF IntOfValue(payload.index)[1] < 1 THEN "index must be >= 1"
    ELSE IF IntOfValue(payload.episode) = <<>> THEN "invalid episode"
    ELSE IF IntOfValue(payload.episode)[1] < 1 THEN "episode must be >= 1"
    ELSE ""

\* anime or query, as the handler passes it on
PlayTitle(payload) ==
    LET query == Strip(payload.query)
        anime == Strip(IF payload.anime # <<>> THEN payload.anime ELSE payload.query)
    IN  IF anime # <<>> THEN anime ELSE query

\* a handler thread takes a request: a 400 reply, or it goes on to wait for
\* DOWNLOAD_LOCK
PlayArrive(w, payload, stamp) ==
    /\ pc[w] = "idle"
    /\ clock < MaxPlays
    /\ IF PlayError(payload) # ""
       THEN /\ pc' = [pc EXCEPT ![w] = "play_replied"]
            /\ loc' = [loc EXCEPT ![w] = [LocInit EXCEPT
                           !.ok = FALSE, !.msg = PlayError(payload),
                           !.request = [path |-> "/api/play_episode",
                                        payload |-> payload]]]
       ELSE /\ pc' = [pc EXCEPT ![w] = "play_wait"]
            /\ loc' = [loc EXCEPT ![w] = [LocInit EXCEPT
                           !.arrived = stamp,
                           !.request = [path |-> "/api/play_episode",
                                        payload |-> payload],
                           !.details = Details(PlayTitle(payload), 0,
                                               IntOfValue(payload.episode)[1], <<>>,
                                               payload.image_url, <<>>)]]
    /\ UNCHANGED <<clock, historyFile, historyLock, downloadLock, appended,
                   arrivals, files, posters, catalog, tree, seasonProcs, seasonWrote>>

PlayCall(w, payload) == PlayArrive(w, payload, 0)

\* with DOWNLOAD_LOCK: (entered), then download_episode_for_browser is called
PlayAcquireNoLockBug(w) ==
    /\ pc[w] = "play_wait"
    /\ downloadLock' = downloadLock \cup {w}
    /\ pc' = [pc EXCEPT ![w] = "dl_entered"]
    /\ UNCHANGED <<clock, historyFile, historyLock, appended, arrivals, files,
                   posters, catalog, tree, loc, seasonProcs, seasonWrote>>

PlayAcquire(w) ==
    /\ pc[w] = "play_wait"
    /\ downloadLock = {}
    /\ downloadLock' = {w}
    /\ pc' = [pc EXCEPT ![w] = "dl_entered"]
    /\ UNCHANGED <<clock, historyFile, historyLock, appended, arrivals, files,
                   posters, catalog, tree, loc, seasonProcs, seasonWrote>>

\* DOWNLOAD_LOCK kept through the poster lookup and append_history
PlayReleaseLateBug(w) ==
    /\ pc[w] = "dl_returned"
    /\ w \in downloadLock
    /\ IF ~loc[w].ok \/ loc[w].video = <<>>
       THEN pc' = [pc EXCEPT ![w] = "play_replied"]
       ELSE pc' = [pc EXCEPT ![w] = "play_poster"]
    /\ UNCHANGED <<clock, historyFile, historyLock, downloadLock, appended,
                   arrivals, files, posters, catalog, tree, loc, seasonProcs,
                   seasonWrote>>

\* download_episode_for_browser has returned: DOWNLOAD_LOCK is released,
\* then a failure is answered 400
PlayRelease(w) ==
    /\ pc[w] = "dl_returned"
    /\ w \in downloadLock
    /\ downloadLock' = downloadLock \ {w}
    /\ IF ~loc[w].ok \/ loc[w].video = <<>>
       THEN pc' = [pc EXCEPT ![w] = "play_replied"]
       ELSE pc' = [pc EXCEPT ![w] = "play_poster"]
    /\ UNCHANGED <<clock, historyFile, historyLock, appended, arrivals, files,
                   posters, catalog, tree, loc, seasonProcs, seasonWrote>>

\* poster_url = ensure_local_poster(anime or query, image_url), then
\* append_history("play_episode", ...) is called
PlayPoster(w, net) ==
    /\ pc[w] = "play_poster"
    /\ \E got \in ensure_local_poster(loc[w].details.anime,
                                       loc[w].details.image_url, posters, net) :
          /\ posters' = got.posters
          /\ loc' = [loc EXCEPT ![w].event = "play_episode",
                                ![w].details.filename = loc[w].video[1],
                                ![w].details.poster_url = got.url]
    /\ pc' = [pc EXCEPT ![w] = "append_wait"]
    /\ UNCHANGED <<clock, historyFile, historyLock, downloadLock, appended,
                   arrivals, files, catalog, tree, seasonProcs, seasonWrote>>

\* the 400 reply has been sent
PlayReplied(w) ==
    /\ pc[w] = "play_replied"
    /\ pc' = [pc EXCEPT ![w] = "idle"]
    /\ loc' = [loc EXCEPT ![w] = LocInit]
    /\ UNCHANGED <<clock, historyFile, historyLock, downloadLock, appended,
                   arrivals, files, posters, catalog, tree, seasonProcs, seasonWrote>>

----------------------------------------------------------------------------
(* Spec: the handler threads of the server, each serving /api/play_episode  *)
(* requests, and the downloader processes writing to DOWNLOAD_DIR           *)

PlayPayloads ==
    {Payload(ShowA, <<>>, "", JInt(1), JInt(3)),
     Payload(ShowA, RandomClip, "", JInt(1), JInt(0))}

PlayNames == {FileShowA3}

\* a downloader process is running; what it writes carries the time of
\* writing
Downloading == \E w \in Workers : pc[w] = "dl_running"

Init ==
    /\ clock = 0
    /\ historyFile = [kind |-> "missing", items |-> <<>>]
    /\ historyLock = {}
    /\ downloadLock = {}
    /\ seasonProcs = 0
    /\ seasonWrote = {}
    /\ appended = <<>>
    /\ arrivals = <<>>
    /\ files = <<>>
    /\ posters = {}
    /\ catalog = NoCatalog
    /\ tree = NoTree
    /\ pc = [w \in Workers |-> "idle"]
    /\ loc = [w \in Workers |-> LocInit]

Next ==
    \/ \E w \in Workers :
           \/ \E payload \in PlayPayloads : PlayCall(w, payload)
           \/ PlayAcquire(w)
           \/ DownloadSnapshot(w)
           \/ \E outcome \in {"started", "not_found", "exception"} :
                  DownloadSpawn(w, outcome)
           \/ \E returncode \in {0, 1} : DownloadExit(w, returncode)
           \/ DownloadDetect(w)
           \/ PlayRelease(w)
           \/ \E net \in NetOutcomes : PlayPoster(w, net)
           \/ AppendAcquire(w)
           \/ AppendLoad(w)
           \/ AppendSave(w)
           \/ AppendRelease(w)
           \/ PlayReplied(w)
    \/ Downloading /\ \E name \in PlayNames : DirWrite(name, clock)

Spec == Init /\ [][Next]_vars

\* worker w is inside a single-episode sequence: the snapshot before, the
\* downloader subprocess, the detection of the file
InSequence(w) ==
    pc[w] \in {"dl_entered", "dl_spawn", "dl_running", "dl_exited", "dl_returned"}

\* C1: of two /api/play_episode requests handled concurrently, the
\* downloader subprocess of the second does not start until the first has
\* released DOWNLOAD_LOCK: in every reachable state at most one
\* single-episode sequence (snapshot before, run subprocess, detect file)
\* is in progress, and it is the holder of the lock that is in it.
C1_OneDownloadSequenceAtATime ==
    /\ \A v, w \in Workers : InSequence(v) /\ InSequence(w) => v = w
    /\ \A w \in Workers : InSequence(w) => downloadLock = {w}

\* the downloader of one request is running while a second request, already
\* validated, waits for DOWNLOAD_LOCK
C1_Witness ==
    \E v, w \in Workers :
        /\ v # w
        /\ pc[v] = "dl_running"
        /\ downloadLock = {v}
        /\ pc[w] = "play_wait"

----------------------------------------------------------------------------
(* RelistSpec: two callers of list_library_groups, one after the other, on *)
(* a download directory, a history log and a catalog that do not change    *)

RelistNames == {FileShowA3, FileClip}
Callers == {1, 2}

RelistInit ==
    /\ clock = 0
    /\ files \in Dirs(RelistNames)
    /\ \E scenario \in LibraryScenarios :
          historyFile = scenario[1] /\ catalog = scenario[2]
    /\ posters = {}
    /\ historyLock = {}
    /\ downloadLock = {}
    /\ seasonProcs = 0
    /\ seasonWrote = {}
    /\ appended = <<>>
    /\ arrivals = <<>>
    /\ tree = NoTree
    /\ pc = [w \in Workers |-> "idle"]
    /\ loc = [w \in Workers |-> LocInit]

RelistNext ==
    \E w \in Callers :
        \/ \E order \in GroupedOrders(MediaFiles(files)) :
               \E net \in [{ParseName(f).title : f \in MediaFiles(files)} -> NetOutcomes] :
                   ListLibrary(w, order, net)
        \/ LibraryDone(w)

RelistSpec == RelistInit /\ [][RelistNext]_vars

\* what C11 compares of a library entry
EntryView(entry) ==
    [title |-> entry.title,
     poster_url |-> entry.poster_url,
     total_episodes |-> entry.total_episodes,
     downloaded_episodes |-> entry.downloaded_episodes,
     files_by_episode |-> entry.files_by_episode]

\* C11: library grouping is idempotent: two consecutive list_library_groups
\* calls with no change to the download directory in between return
\* identical sets of library entries (title, poster, total episode count,
\* downloaded episodes, files by episode).
C11_RelistGivesSameEntries ==
    \A v, w \in Callers :
        (pc[v] = "library_done" /\ pc[w] = "library_done") =>
            {EntryView(e) : e \in Returned(v)} = {EntryView(e) : e \in Returned(w)}

----------------------------------------------------------------------------
(* POST /api/download_season and POST /api/download_all_by_title *)

\* the JSON body of /api/download_season; index and episodes as in Payload
SeasonPayload(query, anime, image_url, index, episodes) ==
    [query |-> query, anime |-> anime, image_url |-> image_url,
     index |-> index, episodes |-> episodes]

\* the checks of do_POST for /api/download_season, in the order they are made
SeasonError(payload) ==
    IF IntOfValue(payload.index) = <<>> THEN "invalid index"
    ELSE IF Strip(payload.query) = <<>> THEN "query required"
    ELSE IF IntOfValue(payload.index)[1] < 1 THEN "index must be >= 1"
    ELSE IF IntOfValue(payload.episodes) = <<>> THEN "invalid episodes"
    ELSE IF IntOfValue(payload.episodes)[1] < 1 THEN "episodes must be >= 1"
    ELSE ""

\* a handler thread takes a /api/download_season request: a 400 reply, or
\* it goes on to start_background_season_download
SeasonArrive(w, payload, stamp) ==
    /\ pc[w] = "idle"
    /\ IF SeasonError(payload) # ""
       THEN /\ pc' = [pc EXCEPT ![w] = "play_replied"]
            /\ loc' = [loc EXCEPT ![w] = [LocInit EXCEPT
                           !.ok = FALSE, !.msg = SeasonError(payload),
                           !.request = [path |-> "/api/download_season",
                                        payload |-> payload]]]
       ELSE /\ pc' = [pc EXCEPT ![w] = "season_spawn"]
            /\ loc' = [loc EXCEPT ![w] = [LocInit EXCEPT
                           !.arrived = stamp,
                           !.request = [path |-> "/api/download_season",
                                        payload |-> payload],
                           !.details = Details(PlayTitle(payload),
                                               IntOfValue(payload.episodes)[1], 0, <<>>,
                                               payload.image_url, <<>>)]]
    /\ UNCHANGED <<clock, historyFile, historyLock, downloadLock, appended,
                   arrivals, files, seasonProcs, seasonWrote, posters, catalog, tree>>

SeasonCall(w, payload) == SeasonArrive(w, payload, 0)

\* a handler thread takes a /api/download_all_by_title request: a 400 reply
\* for a blank title, or it goes on to search the catalog
AllByTitleCall(w, title, image_url) ==
    /\ pc[w] = "idle"
    /\ IF Strip(title) = <<>>
       THEN /\ pc' = [pc EXCEPT ![w] = "play_replied"]
            /\ loc' = [loc EXCEPT ![w] = [LocInit EXCEPT
                           !.ok = FALSE, !.msg = "title required"]]
       ELSE /\ pc' = [pc EXCEPT ![w] = "all_search"]
            /\ loc' = [loc EXCEPT ![w] = [LocInit EXCEPT
                           !.details = Details(Strip(title), 0, 0, <<>>,
                                               image_url, <<>>)]]
    /\ UNCHANGED <<clock, historyFile, historyLock, downloadLock, appended,
                   arrivals, files, seasonProcs, seasonWrote, posters, catalog, tree>>

\* start_background_season_download_by_title up to the match: the search
\* fails or finds nothing (400), or episodes = match.episodes
AllByTitleSearch(w, mode) ==
    /\ pc[w] = "all_search"
    /\ LET title == loc[w].details.anime
           results == catalog[mode].results
           match == best_search_match(title, results)
       IN  IF ~catalog[mode].ok
           THEN /\ pc' = [pc EXCEPT ![w] = "play_replied"]
                /\ loc' = [loc EXCEPT ![w].ok = FALSE, ![w].msg = "search failed"]
           ELSE IF results = <<>> \/ match = <<>>
           THEN /\ pc' = [pc EXCEPT ![w] = "play_replied"]
                /\ loc' = [loc EXCEPT ![w].ok = FALSE, ![w].msg = "no search results"]
           ELSE /\ pc' = [pc EXCEPT ![w] = "season_spawn"]
                /\ loc' = [loc EXCEPT ![w].details.episodes = match[1].episodes]
    /\ UNCHANGED <<clock, historyFile, historyLock, downloadLock, appended,
                   arrivals, files, seasonProcs, seasonWrote, posters, catalog, tree>>

\* start_background_season_download: subprocess.Popen starts the downloader
\* and returns at once, or raises
SeasonSpawnLockedBug(w, outcome) ==
    /\ pc[w] = "season_spawn"
    /\ downloadLock = {}
    /\ IF outcome = "started"
       THEN /\ seasonProcs' = seasonProcs + 1
            /\ pc' = [pc EXCEPT ![w] = "season_poster"]
            /\ loc' = [loc EXCEPT ![w].ok = TRUE,
                                  ![w].msg = "Started full season download"]
       ELSE /\ seasonProcs' = seasonProcs
            /\ pc' = [pc EXCEPT ![w] = "play_replied"]
            /\ loc' = [loc EXCEPT ![w].ok = FALSE,
                          ![w].msg = IF outcome = "not_found"
                                     THEN "ani-cli is not installed or not in PATH"
                                     ELSE "str(exc)"]
    /\ UNCHANGED <<clock, historyFile, historyLock, downloadLock, appended,
                   arrivals, files, seasonWrote, posters, catalog, tree>>

\* the handler going on to the poster and append_history whatever
\* start_background_season_download returned
SeasonSpawnAlwaysAppendsBug(w, outcome) ==
    /\ pc[w] = "season_spawn"
    /\ seasonProcs' = IF outcome = "started" THEN seasonProcs + 1 ELSE seasonProcs
    /\ pc' = [pc EXCEPT ![w] = "season_poster"]
    /\ loc' = [loc EXCEPT ![w].ok = (outcome = "started"),
                          ![w].msg = IF outcome = "started"
                                     THEN "Started full season download"
                                     ELSE "ani-cli is not installed or not in PATH"]
    /\ UNCHANGED <<clock, historyFile, historyLock, downloadLock, appended,
                   arrivals, files, seasonWrote, posters, catalog, tree>>

SeasonSpawn(w, outcome) ==
    /\ pc[w] = "season_spawn"
    /\ IF outcome = "started"
       THEN /\ seasonProcs' = seasonProcs + 1
            /\ pc' = [pc EXCEPT ![w] = "season_poster"]
            /\ loc' = [loc EXCEPT ![w].ok = TRUE,
                                  ![w].msg = "Started full season download"]
       ELSE /\ seasonProcs' = seasonProcs
            /\ pc' = [pc EXCEPT ![w] = "play_replied"]
            /\ loc' = [loc EXCEPT ![w].ok = FALSE,
                          ![w].msg = IF outcome = "not_found"
                                     THEN "ani-cli is not installed or not in PATH"
                                     ELSE "str(exc)"]
    /\ UNCHANGED <<clock, historyFile, historyLock, downloadLock, appended,
                   arrivals, files, seasonWrote, posters, catalog, tree>>

\* poster_url = ensure_local_poster(anime or query, image_url), then
\* append_history("download_season", ...) is called
SeasonPoster(w, net) ==
    /\ pc[w] = "season_poster"
    /\ \E got \in ensure_local_poster(loc[w].details.anime,
                                       loc[w].details.image_url, posters, net) :
          /\ posters' = got.posters
          /\ loc' = [loc EXCEPT ![w].event = "download_season",
                                ![w].details.poster_url = got.url]
    /\ pc' = [pc EXCEPT ![w] = "append_wait"]
    /\ UNCHANGED <<clock, historyFile, historyLock, downloadLock, appended,
                   arrivals, files, seasonProcs, seasonWrote, catalog, tree>>

\* a running season downloader writes a file; the mtime is the time of writing
SeasonWrite(name) ==
    /\ seasonProcs > 0
    /\ files' = [p \in DOMAIN files \cup {name} |->
                    IF p = name THEN clock ELSE files[p]]
    /\ seasonWrote' = seasonWrote \cup {name}
    /\ <<files', seasonWrote'>> # <<files, seasonWrote>>
    /\ UNCHANGED <<clock, historyFile, historyLock, downloadLock, appended,
                   arrivals, seasonProcs, posters, catalog, tree, pc, loc>>

\* a season downloader process ends; nothing waits for it
SeasonExit ==
    /\ seasonProcs > 0
    /\ seasonProcs' = seasonProcs - 1
    /\ UNCHANGED <<clock, historyFile, historyLock, downloadLock, appended,
                   arrivals, files, seasonWrote, posters, catalog, tree, pc, loc>>

----------------------------------------------------------------------------
(* SeasonSpec: two handler threads serving /api/play_episode,               *)
(* /api/download_season and /api/download_all_by_title, with the downloader *)
(* processes they start                                                     *)

SeasonNames == {FileShowA12}

SeasonCatalog ==
    [mode \in {"dub", "sub"} |->
        IF mode = "dub"
        THEN CatalogGives(<<AnimeResult("id2", ShowA, 12, "")>>)
        ELSE CatalogFails]

SeasonInit ==
    /\ clock = 0
    /\ historyFile = [kind |-> "missing", items |-> <<>>]
    /\ historyLock = {}
    /\ downloadLock = {}
    /\ seasonProcs = 0
    /\ seasonWrote = {}
    /\ appended = <<>>
    /\ arrivals = <<>>
    /\ files = <<>>
    /\ posters = {}
    /\ catalog = SeasonCatalog
    /\ tree = NoTree
    /\ pc = [w \in Workers |-> "idle"]
    /\ loc = [w \in Workers |-> LocInit]

SeasonNext ==
    \/ \E w \in Callers :
           \/ PlayCall(w, Payload(ShowA, <<>>, "", JInt(1), JInt(3)))
           \/ /\ clock < MaxRequests
              /\ \E episodes \in {JInt(0), JInt(12)} :
                     SeasonCall(w, SeasonPayload(ShowA, <<>>, "", JInt(1), episodes))
           \/ /\ clock < MaxRequests
              /\ AllByTitleCall(w, ShowA, "")
           \/ \E mode \in {"dub", "sub"} : AllByTitleSearch(w, mode)
           \/ \E outcome \in {"started", "not_found"} : SeasonSpawn(w, outcome)
           \/ SeasonPoster(w, "none")
           \/ PlayAcquire(w)
           \/ DownloadSnapshot(w)
           \/ \E outcome \in {"started", "not_found"} : DownloadSpawn(w, outcome)
           \/ \E returncode \in {0, 1} : DownloadExit(w, returncode)
           \/ DownloadDetect(w)
           \/ PlayRelease(w)
           \/ PlayPoster(w, "none")
           \/ AppendAcquire(w)
           \/ AppendLoad(w)
           \/ AppendSave(w)
           \/ AppendRelease(w)
           \/ PlayReplied(w)
    \/ Downloading /\ \E name \in PlayNames : DirWrite(name, clock)
    \/ \E name \in SeasonNames : SeasonWrite(name)
    \/ SeasonExit

SeasonSpec == SeasonInit /\ [][SeasonNext]_vars

\* the positions of a handler thread inside a season request, up to the
\* call of append_history
SeasonPcs == {"all_search", "season_spawn", "season_poster"}

\* C12: season (range) downloads never acquire DOWNLOAD_LOCK and never wait
\* for their subprocess: a /api/download_season or
\* /api/download_all_by_title request starts its downloader and goes on to
\* respond whoever holds the lock and whatever downloaders are running.
C12_SeasonDownloadsTakeNoLock ==
    \A w \in Workers :
        /\ pc[w] \in SeasonPcs => w \notin downloadLock
        /\ pc[w] = "season_spawn" => ENABLED SeasonSpawn(w, "started")
        /\ pc[w] = "season_poster" => ENABLED SeasonPoster(w, "none")

\* a single-episode download holds the lock with its downloader running, a
\* season request has just started its downloader, and two season
\* downloaders are running at once
C12_Witness ==
    \E v, w \in Workers :
        /\ pc[v] = "dl_running"
        /\ downloadLock = {v}
        /\ pc[w] = "season_poster"
        /\ loc[w].ok
        /\ seasonProcs >= 2

\* C13: the output files of a season download are never reconciled to a
\* specific file: in no interleaving of a running season download with a
\* single-episode download does detect_downloaded_file return, as the
\* single-episode result, a file that the season download wrote.
C13_SeasonFileIsNeverTheEpisodeResult ==
    \A w \in Workers :
        (pc[w] = "dl_returned" /\ loc[w].ok) => loc[w].video[1] \notin seasonWrote

----------------------------------------------------------------------------
(* ArrivalSpec: two handler threads serving /api/play_episode and           *)
(* /api/download_season, every request stamped with its arrival            *)

ArrivalNext ==
    \/ \E w \in Callers :
           \/ /\ NextArrival <= MaxRequests
              /\ PlayArrive(w, Payload(ShowA, <<>>, "", JInt(1), JInt(3)), NextArrival)
           \/ /\ NextArrival <= MaxRequests
              /\ clock < MaxRequests
              /\ SeasonArrive(w, SeasonPayload(ShowA, <<>>, "", JInt(1), JInt(12)),
                              NextArrival)
           \/ \E outcome \in {"started", "not_found"} : SeasonSpawn(w, outcome)
           \/ SeasonPoster(w, "none")
           \/ PlayAcquire(w)
           \/ DownloadSnapshot(w)
           \/ \E outcome \in {"started", "not_found"} : DownloadSpawn(w, outcome)
           \/ \E returncode \in {0, 1} : DownloadExit(w, returncode)
           \/ DownloadDetect(w)
           \/ PlayRelease(w)
           \/ PlayPoster(w, "none")
           \/ AppendAcquire(w)
           \/ AppendLoad(w)
           \/ AppendSave(w)
           \/ AppendRelease(w)
           \/ PlayReplied(w)
    \/ Downloading /\ \E name \in PlayNames : DirWrite(name, clock)
    \/ SeasonExit

ArrivalSpec == SeasonInit /\ [][ArrivalNext]_vars

\* C14: history entries are appended in request-arrival order: of any two
\* requests that each append a history entry, the entry of the request that
\* arrived first is placed in the log before the entry of the request that
\* arrived later.
C14_EntriesInArrivalOrder ==
    \A i, j \in 1..Len(arrivals) : i < j => arrivals[i] < arrivals[j]

----------------------------------------------------------------------------
(* CorruptSpec: append_history and latest_history on a history log that is *)
(* missing, unparsable, not a JSON list, or cannot be read                  *)

\* what HISTORY_FILE may be when it does not hold a JSON list: absent;
\* holding text json.loads rejects; holding another JSON value; present but
\* not readable (read_text raises: no permission, a directory)
DamagedKinds == {"missing", "unparsable", "not_a_list", "unreadable"}

\* save_history on a file that cannot be read either: write_text raises,
\* the exception leaves append_history and HISTORY_LOCK is released
AppendSaveRaises(w) ==
    /\ pc[w] = "append_loaded"
    /\ historyFile.kind = "unreadable"
    /\ historyLock' = historyLock \ {w}
    /\ pc' = [pc EXCEPT ![w] = "append_raised"]
    /\ UNCHANGED <<clock, historyFile, downloadLock, appended, arrivals, files,
                   seasonProcs, seasonWrote, posters, catalog, tree, loc>>

\* the handler thread of the request ends with the exception
AppendAbort(w) ==
    /\ pc[w] = "append_raised"
    /\ pc' = [pc EXCEPT ![w] = "idle"]
    /\ loc' = [loc EXCEPT ![w] = LocInit]
    /\ UNCHANGED <<clock, historyFile, historyLock, downloadLock, appended,
                   arrivals, files, seasonProcs, seasonWrote, posters, catalog, tree>>

CorruptInit ==
    /\ clock = 0
    /\ \E kind \in DamagedKinds : historyFile = [kind |-> kind, items |-> <<>>]
    /\ historyLock = {}
    /\ downloadLock = {}
    /\ seasonProcs = 0
    /\ seasonWrote = {}
    /\ appended = <<>>
    /\ arrivals = <<>>
    /\ files = <<>>
    /\ posters = {}
    /\ catalog = NoCatalog
    /\ tree = NoTree
    /\ pc = [w \in Workers |-> "idle"]
    /\ loc = [w \in Workers |-> LocInit]

CorruptNext ==
    \E w \in Callers :
        \/ /\ clock < MaxRequests
           /\ \E e \in HistoryEvents :
                  AppendCall(w, e, Details(ShowA, 0, 0, <<>>, "", <<>>))
        \/ AppendAcquire(w)
        \/ AppendLoad(w)
        \/ AppendSave(w)
        \/ AppendSaveRaises(w)
        \/ AppendAbort(w)
        \/ AppendRelease(w)
        \/ \E limit \in Limits : LatestCall(w, limit)
        \/ LatestLoad(w)
        \/ LatestReturn(w)
        \/ LatestDone(w)

CorruptSpec == CorruptInit /\ [][CorruptNext]_vars

\* C15: a missing, unreadable, unparsable or non-list history log behaves
\* exactly like an empty log and is never fatal: load_history returns the
\* empty list, latest_history returns no entries, and append_history
\* succeeds and leaves a log holding exactly the one new entry.
C15_DamagedLogIsAnEmptyLog ==
    /\ historyFile.kind \in DamagedKinds => load_history(historyFile) = <<>>
    /\ \A w \in Workers :
          /\ (pc[w] = "latest_done" /\ loc[w].seen = 0) => loc[w].ret = <<>>
          /\ pc[w] # "append_raised"
    /\ Len(appended) = 1 => historyFile = save_history(<<appended[1]>>)

----------------------------------------------------------------------------
(* ValidateSpec: the checks of do_POST on the payloads of                   *)
(* /api/play_episode and /api/download_season                               *)

\* what a client may send for index, episode and episodes: integers, a
\* number with a fraction (2.5), text, null or nothing
IndexValues == {JInt(1), JInt(0), JFloat(2, TRUE), JStr(<<"x">>), JNull}
CountValues == {JInt(3), JInt(0), JInt(-1), JFloat(1, TRUE), JStr(<<" ", "3">>),
                JStr(<<"3", ".", "5">>), JNull}

\* payloads with at most one field that is not the plain valid one
ValidatePayloads ==
    {Payload(query, <<>>, "", JInt(1), JInt(3)) : query \in {ShowA, <<>>, <<" ">>}}
    \cup {Payload(ShowA, <<>>, "", index, JInt(3)) : index \in IndexValues}
    \cup {Payload(ShowA, <<>>, "", JInt(1), episode) : episode \in CountValues}

ValidateSeasonPayloads ==
    {SeasonPayload(p.query, p.anime, p.image_url, p.index, p.episode) :
        p \in ValidatePayloads}

ValidateNext ==
    \/ \E w \in Callers :
           \/ \E payload \in ValidatePayloads : PlayCall(w, payload)
           \/ /\ clock < MaxRequests
              /\ \E payload \in ValidateSeasonPayloads : SeasonCall(w, payload)
           \/ \E outcome \in {"started", "not_found"} : SeasonSpawn(w, outcome)
           \/ SeasonPoster(w, "none")
           \/ PlayAcquire(w)
           \/ DownloadSnapshot(w)
           \/ \E outcome \in {"started", "not_found"} : DownloadSpawn(w, outcome)
           \/ \E returncode \in {0, 1} : DownloadExit(w, returncode)
           \/ DownloadDetect(w)
           \/ PlayRelease(w)
           \/ PlayPoster(w, "none")
           \/ AppendAcquire(w)
           \/ AppendLoad(w)
           \/ AppendSave(w)
           \/ AppendRelease(w)
           \/ PlayReplied(w)
    \/ Downloading /\ \E name \in PlayNames : DirWrite(name, clock)
    \/ SeasonExit

ValidateSpec == SeasonInit /\ [][ValidateNext]_vars

\* a value that is not an integer: null or absent, a number with a
\* fraction, text that is not an integer numeral
NonInteger(value) ==
    \/ value.type = "null"
    \/ value.type = "float" /\ value.fraction
    \/ value.type = "str" /\ ~IsIntText(Strip(value.text))

\* an integer below 1
NonPositive(value) == ~NonInteger(value) /\ IntOfValue(value)[1] < 1

\* the episode of a /api/play_episode payload, the episodes of a
\* /api/download_season payload
CountOf(request) ==
    IF request.path = "/api/play_episode"
    THEN request.payload.episode
    ELSE request.payload.episodes

\* the errors of the 400 replies the checks give
ValidationErrors ==
    {"invalid index", "query required", "index must be >= 1",
     "invalid episode", "episode must be >= 1",
     "invalid episodes", "episodes must be >= 1"}

\* C16: a /api/play_episode or /api/download_season request with a missing
\* query, a non-integer or non-positive index, or a non-integer or
\* non-positive episode/episodes value is rejected with an error before any
\* downloader subprocess is started, any catalog or cover-image network
\* call is made, DOWNLOAD_LOCK is taken, or any history entry is appended:
\* the handler of such a request is only ever at the 400 reply of a check.
C16_BadRequestIsRejectedFirst ==
    \A w \in Workers :
        (/\ loc[w].request.path # "none"
         /\ \/ Strip(loc[w].request.payload.query) = <<>>
            \/ NonInteger(loc[w].request.payload.index)
            \/ NonPositive(loc[w].request.payload.index)
            \/ NonInteger(CountOf(loc[w].request))
            \/ NonPositive(CountOf(loc[w].request)))
        => /\ pc[w] = "play_replied"
           /\ loc[w].msg \in ValidationErrors
           /\ ~loc[w].ok
           /\ loc[w].path = "none"
           /\ w \notin downloadLock

----------------------------------------------------------------------------
(* download_episode_for_browser: its four returns                           *)

\* the downloader of the call ran and exited with code 0
ExitedZero(w) ==
    loc[w].path \in {"exit_nonzero", "detected"} /\ loc[w].returncode = 0

\* what detect_downloaded_file gives for the directory as it is when the
\* call returns
DetectsNow(w) ==
    detect_downloaded_file(loc[w].before, media_snapshot(files), loc[w].started)

\* C17: download_episode_for_browser reports success exactly when the
\* downloader exits with code 0 and detect_downloaded_file returns a file;
\* downloader not found, nonzero exit, and exit 0 with no detected file are
\* three separate failure outcomes, each returning no file, and detection
\* is not attempted after a nonzero exit.
C17_SuccessIffExitZeroAndDetected ==
    \A w \in Workers :
        pc[w] = "dl_returned" =>
            /\ loc[w].ok <=> (ExitedZero(w) /\ DetectsNow(w) # {})
            /\ loc[w].ok => /\ loc[w].video # <<>>
                            /\ loc[w].video[1] \in DetectsNow(w)
            /\ ~loc[w].ok => loc[w].video = <<>>
            /\ loc[w].path = "not_found"
                   => /\ ~loc[w].ok
                      /\ loc[w].msg = "ani-cli is not installed or not in PATH"
            /\ (loc[w].path # "none" /\ loc[w].returncode # 0)
                   => /\ ~loc[w].ok
                      /\ loc[w].path = "exit_nonzero"
                      /\ loc[w].msg = "stderr or stdout or download failed"
                      /\ loc[w].after = <<>>
            /\ (ExitedZero(w) /\ DetectsNow(w) = {})
                   => /\ ~loc[w].ok
                      /\ loc[w].path = "detected"
                      /\ loc[w].msg = "download finished but output file was not detected"

\* a call whose downloader exited with 0 and left a new file has returned
\* success with that file
C17_Witness ==
    \E w \in Workers :
        /\ pc[w] = "dl_returned"
        /\ loc[w].path = "detected"
        /\ loc[w].returncode = 0
        /\ loc[w].ok
        /\ loc[w].video # <<>>
        /\ loc[w].video[1] \notin DOMAIN loc[w].before

----------------------------------------------------------------------------
(* ServeSpec: _serve_media and _serve_poster on any requested name, over    *)
(* file systems with sub-directories and symbolic links                     *)

MaxNameLen == 4

\* a path is the sequence of its components from /, a component a string
DOWNLOAD_DIR == << <<"d">> >>
POSTER_DIR == << <<"p">> >>
DotDot == <<".", ".">>

\* what can be at a path
FileNode == [kind |-> "file"]
DirNode == [kind |-> "dir"]
LinkNode(to) == [kind |-> "link", to |-> to]

\* urllib.parse.unquote on the escapes of the requested names
Unquote(text) ==
    [i \in DOMAIN text |->
        IF text[i] = "%2F" THEN "/" ELSE IF text[i] = "%2E" THEN "." ELSE text[i]]

\* the components of a path text: split at "/", without the empty ones and
\* the "." ones (what pathlib keeps)
RECURSIVE Components(_, _)
Components(text, current) ==
    IF text = <<>>
    THEN IF current \in {<<>>, <<".">>} THEN <<>> ELSE <<current>>
    ELSE IF Head(text) = "/"
    THEN (IF current \in {<<>>, <<".">>} THEN <<>> ELSE <<current>>)
         \o Components(Tail(text), <<>>)
    ELSE Components(Tail(text), Append(current, Head(text)))

\* Path(text).name: the last component, "" when there is none
PathName(text) ==
    IF Components(text, <<>>) = <<>>
    THEN <<>>
    ELSE Components(text, <<>>)[Len(Components(text, <<>>))]

\* root / name
Join(root, name) == IF name = <<>> THEN root ELSE Append(root, name)

\* path.parent
Parent(path) == IF path = <<>> THEN <<>> ELSE SubSeq(path, 1, Len(path) - 1)

\* Path.resolve(): the components are walked from /, a symbolic link is
\* replaced by its target and ".." goes to the parent of what was reached
RECURSIVE ResolveFrom(_, _, _, _)
ResolveFrom(t, reached, rest, fuel) ==
    IF rest = <<>> THEN reached
    ELSE IF Head(rest) = DotDot
    THEN ResolveFrom(t, Parent(reached), Tail(rest), fuel)
    ELSE IF /\ Append(reached, Head(rest)) \in DOMAIN t
            /\ t[Append(reached, Head(rest))].kind = "link"
            /\ fuel > 0
    THEN ResolveFrom(t, <<>>, t[Append(reached, Head(rest))].to \o Tail(rest),
                     fuel - 1)
    ELSE ResolveFrom(t, Append(reached, Head(rest)), Tail(rest), fuel)

Resolve(t, path) == ResolveFrom(t, <<>>, path, Cardinality(DOMAIN t))

\* no test of the parent
OutsideRootNeverBug(t, target, root) == FALSE

\* target.parent != root.resolve()
OutsideRoot(t, target, root) == Parent(target) # Resolve(t, root)

\* target = (root / Path(unquote(filename)).name).resolve()
ServeTarget(t, root, filename) ==
    Resolve(t, Join(root, PathName(Unquote(filename))))

\* the test of _serve_media and _serve_poster: TRUE for Not Found
NotFound(t, root, target) ==
    \/ OutsideRoot(t, target, root)
    \/ target \notin DOMAIN t
    \/ t[target].kind # "file"

\* _serve_media(filename) / _serve_poster(filename): send_error(NOT_FOUND),
\* or 200 and the content of target
Serve(w, path, root, filename) ==
    /\ pc[w] = "idle"
    /\ pc' = [pc EXCEPT ![w] = "served"]
    /\ \E target \in {ServeTarget(tree, root, filename)} :
          loc' = [loc EXCEPT ![w] = [LocInit EXCEPT
                     !.request = [path |-> path, name |-> filename],
                     !.ok = ~NotFound(tree, root, target),
                     !.msg = IF NotFound(tree, root, target)
                             THEN "Not Found" ELSE "",
                     !.sent = IF NotFound(tree, root, target)
                              THEN <<>> ELSE target]]
    /\ UNCHANGED <<clock, historyFile, historyLock, downloadLock, appended,
                   arrivals, files, seasonProcs, seasonWrote, posters, catalog,
                   tree>>

ServeMedia(w, filename) == Serve(w, "/media/", DOWNLOAD_DIR, filename)
ServePoster(w, filename) == Serve(w, "/poster/", POSTER_DIR, filename)

\* the reply is out
ServeDone(w) ==
    /\ pc[w] = "served"
    /\ pc' = [pc EXCEPT ![w] = "idle"]
    /\ loc' = [loc EXCEPT ![w] = LocInit]
    /\ UNCHANGED <<clock, historyFile, historyLock, downloadLock, appended,
                   arrivals, files, seasonProcs, seasonWrote, posters, catalog,
                   tree>>

\* the characters of the requested names, %2F being the escape of "/"
NameChars == {"a", "l", ".", "/", "%2F"}
Filenames == UNION {[1..n -> NameChars] : n \in 0..MaxNameLen}

\* file systems: both roots, a sub-directory s with a file in it, a file e
\* outside the roots; a in the download root is a file or a directory; the
\* link l of each root leads outside, to a file of the download root, or
\* nowhere
ServeTrees ==
    {  (DOWNLOAD_DIR :> DirNode) @@ (POSTER_DIR :> DirNode)
    @@ (<< <<"e">> >> :> FileNode)
    @@ (<< <<"d">>, <<"s">> >> :> DirNode)
    @@ (<< <<"d">>, <<"s">>, <<"a">> >> :> FileNode)
    @@ (<< <<"d">>, <<"a">> >> :> a)
    @@ (<< <<"p">>, <<"a">> >> :> FileNode)
    @@ (<< <<"d">>, <<"l">> >> :> LinkNode(to))
    @@ (<< <<"p">>, <<"l">> >> :> LinkNode(to)) :
        a \in {FileNode, DirNode},
        to \in { << <<"e">> >>, << <<"d">>, <<"a">> >>, << <<"d">>, <<"z">> >> } }

ServeInit ==
    /\ clock = 0
    /\ historyFile = [kind |-> "missing", items |-> <<>>]
    /\ historyLock = {}
    /\ downloadLock = {}
    /\ seasonProcs = 0
    /\ seasonWrote = {}
    /\ appended = <<>>
    /\ arrivals = <<>>
    /\ files = <<>>
    /\ posters = {}
    /\ catalog = NoCatalog
    /\ tree \in ServeTrees
    /\ pc = [w \in Workers |-> "idle"]
    /\ loc = [w \in Workers |-> LocInit]

ServeNext ==
    \/ \E filename \in Filenames : ServeMedia(1, filename)
    \/ \E filename \in Filenames : ServePoster(1, filename)
    \/ ServeDone(1)

ServeSpec == ServeInit /\ [][ServeNext]_vars

\* the root a request is served from
RootOf(request) == IF request.path = "/media/" THEN DOWNLOAD_DIR ELSE POSTER_DIR

\* path is a regular file directly in the directory root
RegularFileIn(path, root) ==
    /\ path \in DOMAIN tree
    /\ tree[path].kind = "file"
    /\ Len(path) = Len(root) + 1
    /\ SubSeq(path, 1, Len(root)) = root

----------------------------------------------------------------------------
(* PosterSpec: ensure_local_poster called from two handler threads, step by *)
(* step: the glob of POSTER_DIR, the network, the write of the file         *)

\* what the cover lookup and the image fetch come to: no image, or an image
\* with a content type ext_for_content_type maps to the extension
PosterNetOutcomes == {"none", ".jpg", ".png"}

PosterTitles == {ShowA, ShowAVariant}

\* the files of POSTER_DIR that base.* matches
Existing(dir, title) == {f \in dir : f[1] = PosterBase(title)}

\* ensure_local_poster(title, image_url) up to the test of existing: the URL
\* of a file glob() yields is returned, or the call goes on to the network
PosterCall(w, title, image_url) ==
    /\ pc[w] = "idle"
    /\ IF Existing(posters, title) # {}
       THEN \E f \in Existing(posters, title) :
               /\ pc' = [pc EXCEPT ![w] = "poster_done"]
               /\ loc' = [loc EXCEPT ![w] = [LocInit EXCEPT
                              !.path = "cached",
                              !.details = Details(title, 0, 0, <<>>, image_url,
                                                  PosterUrl(f))]]
       ELSE /\ pc' = [pc EXCEPT ![w] = "poster_fetch"]
            /\ loc' = [loc EXCEPT ![w] = [LocInit EXCEPT
                           !.details = Details(title, 0, 0, <<>>, image_url,
                                               <<>>)]]
    /\ UNCHANGED <<clock, historyFile, historyLock, downloadLock, appended,
                   arrivals, files, seasonProcs, seasonWrote, posters, catalog,
                   tree>>

\* src = image_url or find_cover_image(title); urlopen(src): "" is returned
\* when there is no image, else the data and the extension are in hand
PosterFetch(w, net) ==
    /\ pc[w] = "poster_fetch"
    /\ IF net = "none"
       THEN /\ pc' = [pc EXCEPT ![w] = "poster_done"]
            /\ loc' = [loc EXCEPT ![w].path = "no_image"]
       ELSE /\ pc' = [pc EXCEPT ![w] = "poster_write"]
            /\ loc' = [loc EXCEPT ![w].msg = net]
    /\ UNCHANGED <<clock, historyFile, historyLock, downloadLock, appended,
                   arrivals, files, seasonProcs, seasonWrote, posters, catalog,
                   tree>>

\* target.write_bytes(data); return "/poster/" + quote(target.name)
PosterWrite(w) ==
    /\ pc[w] = "poster_write"
    /\ posters' = posters \cup {<<PosterBase(loc[w].details.anime), loc[w].msg>>}
    /\ pc' = [pc EXCEPT ![w] = "poster_done"]
    /\ loc' = [loc EXCEPT
                  ![w].path = "written",
                  ![w].details.poster_url =
                      PosterUrl(<<PosterBase(loc[w].details.anime), loc[w].msg>>)]
    /\ UNCHANGED <<clock, historyFile, historyLock, downloadLock, appended,
                   arrivals, files, seasonProcs, seasonWrote, catalog, tree>>

\* the caller has taken the URL
PosterDone(w) ==
    /\ pc[w] = "poster_done"
    /\ pc' = [pc EXCEPT ![w] = "idle"]
    /\ loc' = [loc EXCEPT ![w] = LocInit]
    /\ UNCHANGED <<clock, historyFile, historyLock, downloadLock, appended,
                   arrivals, files, seasonProcs, seasonWrote, posters, catalog,
                   tree>>

PosterInit ==
    /\ clock = 0
    /\ historyFile = [kind |-> "missing", items |-> <<>>]
    /\ historyLock = {}
    /\ downloadLock = {}
    /\ seasonProcs = 0
    /\ seasonWrote = {}
    /\ appended = <<>>
    /\ arrivals = <<>>
    /\ files = <<>>
    /\ posters = {}
    /\ catalog = NoCatalog
    /\ tree = NoTree
    /\ pc = [w \in Workers |-> "idle"]
    /\ loc = [w \in Workers |-> LocInit]

PosterNext ==
    \E w \in Callers :
        \/ \E title \in PosterTitles : PosterCall(w, title, "")
        \/ \E net \in PosterNetOutcomes : PosterFetch(w, net)
        \/ PosterWrite(w)
        \/ PosterDone(w)

PosterSpec == PosterInit /\ [][PosterNext]_vars

\* C19: poster lookup is idempotent: once ensure_local_poster has cached a
\* poster for a title, every later ensure_local_poster call for that title
\* returns the same poster URL and performs no cover-image lookup and no
\* image fetch. A call that starts when another call has written the poster
\* of the title and returned its URL returns at once, with that URL.
C19_LaterCallReturnsTheCachedUrl ==
    [][\A w1, w2 \in Workers :
          ( /\ pc[w1] = "poster_done"
            /\ loc[w1].path = "written"
            /\ pc[w2] = "idle"
            /\ pc'[w2] # "idle"
            /\ loc'[w2].details.anime = loc[w1].details.anime )
          => /\ pc'[w2] = "poster_done"
             /\ loc'[w2].path = "cached"
             /\ loc'[w2].details.poster_url = loc[w1].details.poster_url]_vars

\* C20: the poster cache key is a function of the normalized title only:
\* any two titles with the same normalized form (same text up to letter
\* case and whitespace runs) map to the same cache file, so a poster cached
\* under one is reused for the other. The files of POSTER_DIR that were
\* cached for titles of one normalized form all have one base.
C20_KeyIsTheNormalizedTitle ==
    \A f, g \in posters :
        normalize_title(f[1][2]) = normalize_title(g[1][2]) => f[1] = g[1]

----------------------------------------------------------------------------
(* list_library_groups: the order of the entries and the index of the files *)

\* the video files of the directory that are grouped under the title
FilesOfTitle(title) == {f \in MediaFiles(files) : ParseName(f).title = title}

IndexInit ==
    /\ clock = 0
    /\ files \in {[f \in present |-> 0] : present \in SUBSET IndexNames}
    /\ historyFile = [kind |-> "missing", items |-> <<>>]
    /\ catalog = NoCatalog
    /\ posters = {}
    /\ historyLock = {}
    /\ downloadLock = {}
    /\ seasonProcs = 0
    /\ seasonWrote = {}
    /\ appended = <<>>
    /\ arrivals = <<>>
    /\ tree = NoTree
    /\ pc = [w \in Workers |-> "idle"]
    /\ loc = [w \in Workers |-> LocInit]

IndexNext ==
    \/ \E order \in GroupedOrders(MediaFiles(files)) :
           \E net \in [{ParseName(f).title : f \in MediaFiles(files)} -> {"none"}] :
               ListLibrary(1, order, net)
    \/ LibraryDone(1)

IndexSpec == IndexInit /\ [][IndexNext]_vars

\* what the file names of IndexNames are to be indexed as, written out by
\* hand: the video files only; in "Show A  episode 12.MKV" the pattern and
\* the extension are matched without regard to case; "Episode 5.mp4" has no
\* title before "Episode" and does not match
IndexedAs ==
       (FileShowA3 :> [title |-> ShowA, episode |-> 3])
    @@ (FileShowA12 :> [title |-> ShowA, episode |-> 12])
    @@ (FileClip :> [title |-> <<"R","a","n","d","o","m"," ","C","l","i","p">>,
                     episode |-> 1])
    @@ (FileEpisode5 :> [title |-> <<"E","p","i","s","o","d","e"," ","5">>,
                         episode |-> 1])

\* C22: for every media file in the download directory: if its stem matches
\* '<Title> Episode <N>' (case-insensitive) it is indexed under title
\* <Title> with episode N; otherwise it is indexed as a title equal to the
\* whole stem with the single episode 1. Files without a recognized video
\* extension are never indexed: every episode of every entry comes from a
\* video file.
C22_FilesIndexedByNamePattern ==
    \A w \in Workers :
        pc[w] = "library_done" =>
            /\ \A f \in DOMAIN files \cap DOMAIN IndexedAs :
                   \E i \in 1..Len(loc[w].ret) :
                       /\ loc[w].ret[i].title = IndexedAs[f].title
                       /\ IndexedAs[f].episode \in DOMAIN loc[w].ret[i].files_by_episode
                       /\ loc[w].ret[i].files_by_episode[IndexedAs[f].episode] = f
                       /\ \E k \in 1..Len(loc[w].ret[i].downloaded_episodes) :
                              loc[w].ret[i].downloaded_episodes[k] = IndexedAs[f].episode
            /\ \A i \in 1..Len(loc[w].ret) :
                   \A k \in 1..Len(loc[w].ret[i].downloaded_episodes) :
                       \E f \in DOMAIN files \cap DOMAIN IndexedAs :
                           /\ IndexedAs[f].title = loc[w].ret[i].title
                           /\ IndexedAs[f].episode = loc[w].ret[i].downloaded_episodes[k]

\* a listing of a directory with the three kinds of file: Show A has the
\* episodes 3 and 12 only, though files named for 7 and 9 are there
C22_Witness ==
    \E w \in Workers :
        /\ pc[w] = "library_done"
        /\ DOMAIN files = IndexNames
        /\ \E i \in 1..Len(loc[w].ret) :
              /\ loc[w].ret[i].title = ShowA
              /\ loc[w].ret[i].downloaded_episodes = <<3, 12>>

----------------------------------------------------------------------------
(* The single-episode downloader that does not end *)

\* the step of worker w is the sending of a reply to its /api/play_episode
\* request: the 400 of a check or of a failed download, or the 200 after
\* append_history
PlayResponse(w) ==
    \/ pc[w] # "play_replied" /\ pc'[w] = "play_replied"
    \/ pc[w] = "append_saved" /\ pc'[w] = "idle"

\* C23 as stated: the downloader subprocess has no timeout: while a
\* single-episode downloader subprocess has not terminated, DOWNLOAD_LOCK
\* stays held and no other /api/play_episode request ever starts its
\* subprocess or receives a response.
C23_NoOtherRequestStartsOrIsAnswered ==
    [][\A v, w \in Workers :
          (v # w /\ pc[v] = "dl_running" /\ pc'[v] = "dl_running")
          => /\ downloadLock = {v} /\ downloadLock' = {v}
             /\ ~(pc[w] # "dl_running" /\ pc'[w] = "dl_running")
             /\ ~PlayResponse(w)]_vars

\* C23: while a single-episode downloader subprocess has not terminated,
\* its handler does nothing but wait for it, DOWNLOAD_LOCK stays held by
\* that handler, and every other /api/play_episode request that has passed
\* the checks and has not had DOWNLOAD_LOCK yet stays waiting for it: it
\* cannot take the lock, so it starts no subprocess and gets no response.
\* (A request that fails a check is answered 400 at once, and a request
\* whose own download ended earlier is answered meanwhile.)
C23_WaitingRequestsStayBlocked ==
    \A v \in Workers :
        pc[v] = "dl_running" =>
            /\ downloadLock = {v}
            /\ ~ENABLED PlayRelease(v)
            /\ ~ENABLED DownloadDetect(v)
            /\ ~ENABLED PlayReplied(v)
            /\ \A w \in Workers \ {v} :
                  /\ pc[w] \notin {"dl_entered", "dl_spawn", "dl_running",
                                   "dl_exited", "dl_returned"}
                  /\ pc[w] = "play_wait" => ~ENABLED PlayAcquire(w)

\* a downloader runs, a file of it is already written, and a second,
\* valid request waits for DOWNLOAD_LOCK
C23_Witness ==
    \E v, w \in Workers :
        /\ v # w
        /\ pc[v] = "dl_running"
        /\ files # <<>>
        /\ pc[w] = "play_wait"
        /\ loc[w].request.path = "/api/play_episode"

----------------------------------------------------------------------------
(* detect_downloaded_file: the order of the tiers and the choice in a tier  *)

\* C24: detect_downloaded_file applies its tiers in strict order and the
\* first matching tier wins: if any new file exists the result is a new
\* file even when an updated or recent pre-existing file has a later
\* modification time; if no file is new but some file was updated, the
\* result is an updated file even when an unchanged file inside the recency
\* window has a later modification time.
C24_FirstMatchingTierWins ==
    \A w \in Workers :
        Detected(w) =>
            LET before == loc[w].before
                after == loc[w].after
                new == {f \in DOMAIN after : f \notin DOMAIN before}
                updated == {f \in DOMAIN after :
                               f \in DOMAIN before /\ after[f] > before[f]}
            IN  /\ new # {} => /\ loc[w].video # <<>>
                               /\ loc[w].video[1] \in new
                /\ (new = {} /\ updated # {}) => /\ loc[w].video # <<>>
                                                 /\ loc[w].video[1] \in updated

\* a new file is returned although an updated file and an unchanged file
\* inside the recency window both have later modification times
C24_Witness ==
    \E w \in Workers :
        /\ Detected(w)
        /\ \E f, g, h \in DOMAIN loc[w].after :
              /\ f \notin DOMAIN loc[w].before
              /\ loc[w].video = <<f>>
              /\ g \in DOMAIN loc[w].before
              /\ loc[w].after[g] > loc[w].before[g]
              /\ loc[w].after[g] > loc[w].after[f]
              /\ h \in DOMAIN loc[w].before
              /\ loc[w].after[h] = loc[w].before[h]
              /\ loc[w].after[h] >= loc[w].started - 1
              /\ loc[w].after[h] > loc[w].after[f]

\* C25: when several files are new (absent from the before-snapshot),
\* detect_downloaded_file returns the new file with the latest modification
\* time; likewise among several updated files it returns the one with the
\* latest modification time in the after-snapshot.
C25_LatestOfSeveralInTheTier ==
    \A w \in Workers :
        Detected(w) =>
            LET before == loc[w].before
                after == loc[w].after
                new == {f \in DOMAIN after : f \notin DOMAIN before}
                updated == {f \in DOMAIN after :
                               f \in DOMAIN before /\ after[f] > before[f]}
            IN  /\ Cardinality(new) > 1 =>
                       /\ loc[w].video # <<>>
                       /\ loc[w].video[1] \in new
                       /\ \A f \in new : after[f] <= after[loc[w].video[1]]
                /\ (new = {} /\ Cardinality(updated) > 1) =>
                       /\ loc[w].video # <<>>
                       /\ loc[w].video[1] \in updated
                       /\ \A f \in updated : after[f] <= after[loc[w].video[1]]

\* of two updated files the later one is returned; an unchanged file that
\* is not older than it is in the directory too
C25_Witness ==
    \E w \in Workers :
        /\ Detected(w)
        /\ \A f \in DOMAIN loc[w].after : f \in DOMAIN loc[w].before
        /\ \E f, g, h \in DOMAIN loc[w].after :
              /\ loc[w].video = <<f>>
              /\ loc[w].after[f] > loc[w].before[f]
              /\ loc[w].after[g] > loc[w].before[g]
              /\ loc[w].after[f] > loc[w].after[g]
              /\ loc[w].after[h] = loc[w].before[h]
              /\ loc[w].after[h] >= loc[w].after[f]

\* C26: when no file is new and no file's modification time increased,
\* detect_downloaded_file returns the latest-modified file among those
\* whose modification time is at or after invocation start minus 1 second,
\* including a file that was already in the before-snapshot and is
\* unchanged; a file modified more than 1 second before invocation start is
\* never returned by this tier.
C26_RecencyTier ==
    \A w \in Workers :
        Detected(w) =>
            LET before == loc[w].before
                after == loc[w].after
                recent == {f \in DOMAIN after : after[f] >= loc[w].started - 1}
            IN  (\A f \in DOMAIN after : f \in DOMAIN before /\ after[f] <= before[f])
                => /\ recent # {} => /\ loc[w].video # <<>>
                                     /\ loc[w].video[1] \in recent
                                     /\ \A f \in recent :
                                            after[f] <= after[loc[w].video[1]]
                   /\ recent = {} => loc[w].video = <<>>

\* an unchanged file written one second before the start is returned; a
\* file written earlier than that is in the directory too
C26_Witness ==
    \E w \in Workers :
        /\ Detected(w)
        /\ \A f \in DOMAIN loc[w].after :
              f \in DOMAIN loc[w].before /\ loc[w].after[f] <= loc[w].before[f]
        /\ \E f, g \in DOMAIN loc[w].after :
              /\ loc[w].video = <<f>>
              /\ loc[w].after[f] = loc[w].before[f]
              /\ loc[w].after[f] = loc[w].started - 1
              /\ loc[w].after[g] < loc[w].started - 1

----------------------------------------------------------------------------
(* infer_total_episodes without a recorded count *)

\* the result the claim names for a title among the results of a search,
\* <<>> when there are none: the first whose normalized name is the
\* normalized title, else the first whose normalized name contains it or
\* is contained in it, else the first
NamedMatch(title, results) ==
    LET exact(i) == normalize_title(results[i].name) = normalize_title(title)
        partial(i) ==
            \/ Contains(normalize_title(results[i].name), normalize_title(title))
            \/ Contains(normalize_title(title), normalize_title(results[i].name))
        all == 1..Len(results)
    IN  IF results = <<>> THEN <<>>
        ELSE IF \E i \in all : exact(i)
        THEN <<results[CHOOSE i \in all : exact(i) /\ \A j \in 1..(i - 1) : ~exact(j)]>>
        ELSE IF \E i \in all : partial(i)
        THEN <<results[CHOOSE i \in all : partial(i) /\ \A j \in 1..(i - 1) : ~partial(j)]>>
        ELSE <<results[1]>>

\* the search in the mode failed or gave no match
NoMatchIn(mode) == ~catalog[mode].ok \/ catalog[mode].results = <<>>

\* C27: when history holds no positive episode count for a title,
\* total-episode inference queries the catalog in dub mode first and sub
\* mode only if dub failed or gave no match, and uses the best match's
\* episode count (exact normalized title match first, else substring
\* containment in either direction, else the first result); when both modes
\* fail, the library entry's total is the maximum downloaded episode number.
C27_InferenceFromTheCatalog ==
    \A w \in Workers : \A entry \in Returned(w) :
        RecordedCounts(entry.title) = {} =>
            LET searched == loc[w].searched[entry.title]
                inferred == loc[w].inferred[entry.title]
                top == entry.downloaded_episodes[Len(entry.downloaded_episodes)]
            IN  /\ searched = IF NoMatchIn("dub") THEN <<"dub", "sub">> ELSE <<"dub">>
                /\ ~NoMatchIn("dub") =>
                       inferred = NamedMatch(entry.title, catalog["dub"].results)[1].episodes
                /\ (NoMatchIn("dub") /\ ~NoMatchIn("sub")) =>
                       inferred = NamedMatch(entry.title, catalog["sub"].results)[1].episodes
                /\ (NoMatchIn("dub") /\ NoMatchIn("sub")) =>
                       /\ inferred = 0
                       /\ entry.total_episodes = top

\* a listing in which one title got the count of a result whose name
\* contains the title and another the count of a result whose name the
\* title contains, neither result being the first of the dub search
C27_Witness ==
    \E w \in Workers : \E a, b \in Returned(w) :
        /\ RecordedCounts(a.title) = {}
        /\ RecordedCounts(b.title) = {}
        /\ a.title = ShowA
        /\ b.title = RandomClip
        /\ loc[w].searched[a.title] = <<"dub">>
        /\ Len(catalog["dub"].results) = 3
        /\ loc[w].inferred[a.title] = catalog["dub"].results[3].episodes
        /\ loc[w].inferred[b.title] = catalog["dub"].results[2].episodes

----------------------------------------------------------------------------
(* LocksSpec: handler threads serving /api/play_episode, /api/history_event, *)
(* /api/history and /api/library, every user of the two locks               *)

LocksNext ==
    \/ \E w \in Callers :
           \/ \E payload \in PlayPayloads : PlayCall(w, payload)
           \/ PlayAcquire(w)
           \/ DownloadSnapshot(w)
           \/ \E outcome \in {"started", "not_found", "exception"} :
                  DownloadSpawn(w, outcome)
           \/ \E returncode \in {0, 1} : DownloadExit(w, returncode)
           \/ DownloadDetect(w)
           \/ PlayRelease(w)
           \/ \E net \in {"none"} : PlayPoster(w, net)
           \/ PlayReplied(w)
           \/ /\ clock < MaxPlays
              /\ AppendCall(w, "play_downloaded_file",
                            Details(ShowA, 0, 0, <<>>, "", <<>>))
           \/ AppendAcquire(w)
           \/ AppendLoad(w)
           \/ AppendSave(w)
           \/ AppendRelease(w)
           \/ LatestCall(w, 1)
           \/ LatestLoad(w)
           \/ LatestReturn(w)
           \/ LatestDone(w)
           \/ \E order \in GroupedOrders(MediaFiles(files)) :
                  \E net \in [{ParseName(f).title : f \in MediaFiles(files)} -> {"none"}] :
                      ListLibrary(w, order, net)
           \/ LibraryDone(w)
    \/ Downloading /\ \E name \in PlayNames : DirWrite(name, clock)

LocksSpec == Init /\ [][LocksNext]_vars

\* worker w is at a with statement, waiting for the lock
WaitsForDownloadLock(w) == pc[w] = "play_wait"
WaitsForHistoryLock(w) == pc[w] \in {"append_wait", "latest_wait"}

\* a step of worker h inside a with block
HolderStep(h) ==
    \/ DownloadSnapshot(h)
    \/ \E outcome \in {"started", "not_found", "exception"} : DownloadSpawn(h, outcome)
    \/ \E returncode \in {0, 1} : DownloadExit(h, returncode)
    \/ DownloadDetect(h)
    \/ PlayRelease(h)
    \/ AppendLoad(h)
    \/ AppendSave(h)
    \/ AppendRelease(h)
    \/ LatestReturn(h)

\* C28: the history lock and the download lock are disjoint: in no
\* reachable state does a worker hold DOWNLOAD_LOCK and HISTORY_LOCK at the
\* same time, and no worker waits for one of them while holding the other,
\* so the two locks cannot deadlock (whoever holds a lock can take its next
\* step).
C28_LocksAreDisjoint ==
    /\ downloadLock \cap historyLock = {}
    /\ \A w \in Workers :
           /\ WaitsForDownloadLock(w) => w \notin historyLock
           /\ WaitsForHistoryLock(w) => w \notin downloadLock
    /\ \A h \in downloadLock \cup historyLock :
           /\ ~WaitsForDownloadLock(h)
           /\ ~WaitsForHistoryLock(h)
           /\ ENABLED HolderStep(h)

\* one worker is inside "with DOWNLOAD_LOCK" while another, whose download
\* has succeeded, is inside the "with HISTORY_LOCK" of append_history
C28_Witness ==
    \E w, v \in Workers :
        /\ w # v
        /\ w \in downloadLock
        /\ v \in historyLock
        /\ pc[v] = "append_loaded"
        /\ loc[v].event = "play_episode"

----------------------------------------------------------------------------
(* AppendOnceSpec: every worker calls append_history once, on an empty log  *)

OnceEvents == {"play_episode", "play_downloaded_file", "download_season"}

\* the details of the call of worker w name the caller
OnceDetails(w) == Details(ShowA, 0, w, <<>>, "", <<>>)

\* worker w has made its call
Called(w) ==
    \/ pc[w] # "idle"
    \/ \E i \in 1..Len(appended) : appended[i].details = OnceDetails(w)

AppendOnceInit ==
    /\ clock = 0
    /\ historyFile \in {[kind |-> "missing", items |-> <<>>],
                        [kind |-> "list", items |-> <<>>]}
    /\ historyLock = {}
    /\ downloadLock = {}
    /\ seasonProcs = 0
    /\ seasonWrote = {}
    /\ appended = <<>>
    /\ arrivals = <<>>
    /\ files = <<>>
    /\ posters = {}
    /\ catalog = NoCatalog
    /\ tree = NoTree
    /\ pc = [w \in Workers |-> "idle"]
    /\ loc = [w \in Workers |-> LocInit]

AppendOnceNext ==
    \E w \in Workers :
        \/ /\ ~Called(w)
           /\ \E e \in OnceEvents : AppendCall(w, e, OnceDetails(w))
        \/ AppendAcquire(w)
        \/ AppendLoad(w)
        \/ AppendSave(w)
        \/ AppendRelease(w)

AppendOnceSpec == AppendOnceInit /\ [][AppendOnceNext]_vars

\* the calls whose save_history has been made
Saved == {w \in Workers : \E i \in 1..Len(appended) : appended[i].details = OnceDetails(w)}

\* worker w is between its load_history and the end of its save_history
InLoadToSave(w) == pc[w] \in {"append_loaded", "append_saved"}

\* C29: concurrent append_history calls lose no update: when k workers
\* (k <= 10) each call append_history once on an empty log, in any
\* interleaving, the log holds exactly one entry for each call that has
\* saved, so k entries at the end, one per call; the
\* load-append-truncate-save of one call never interleaves with that of
\* another.
C29_NoAppendIsLost ==
    /\ NumWorkers <= HistoryLimit
    /\ historyFile.kind = "list" \/ Saved = {}
    /\ Len(historyFile.items) = Cardinality(Saved)
    /\ \A w \in Saved :
           Cardinality({i \in 1..Len(historyFile.items) :
                           historyFile.items[i].details = OnceDetails(w)}) = 1
    /\ (\A w \in Workers : Called(w) /\ pc[w] = "idle") =>
           Len(historyFile.items) = NumWorkers
    /\ \A w, v \in Workers : (InLoadToSave(w) /\ InLoadToSave(v)) => w = v

\* every worker has made its call and returned, and the log holds the
\* entries of all of them, of two kinds of event
C29_Witness ==
    /\ NumWorkers >= 2
    /\ \A w \in Workers : Called(w) /\ pc[w] = "idle"
    /\ Saved = Workers
    /\ Len(historyFile.items) = NumWorkers
    /\ historyFile.items[1].event # historyFile.items[2].event

----------------------------------------------------------------------------
(* History entries of download requests *)

\* the download of the request worker w handles has succeeded: the
\* single-episode subprocess exited with code 0 and a file was detected, or
\* the season downloader was started
PlaySucceeded(w) ==
    /\ loc[w].path = "detected"
    /\ loc[w].returncode = 0
    /\ loc[w].video # <<>>
    /\ loc[w].video[1] \in DOMAIN loc[w].after
    /\ loc[w].ok
SeasonStarted(w) ==
    /\ loc[w].ok
    /\ loc[w].msg = "Started full season download"

\* worker w is inside the append_history of its request
InAppend(w) == pc[w] \in {"append_wait", "append_locked", "append_loaded", "append_saved"}

\* worker w is about to answer 400
Failed(w) == pc[w] = "play_replied"

\* every handler inside append_history handles a request that succeeded,
\* and a failed one has not called append_history
OnlySuccessReachesAppend ==
    \A w \in Workers :
        /\ (InAppend(w) /\ loc[w].event = "play_episode") => PlaySucceeded(w)
        /\ (InAppend(w) /\ loc[w].event = "download_season") => SeasonStarted(w)
        /\ Failed(w) => (loc[w].event = "" /\ ~loc[w].ok)

\* the log changes only in the save_history of a request that succeeded,
\* by one entry of that request, and not in a step of a failing request
OnlySuccessWritesTheLog ==
    /\ historyFile' # historyFile =>
           \E w \in Workers :
               /\ pc[w] = "append_loaded"
               /\ pc'[w] = "append_saved"
               /\ loc[w].event = "play_episode" => PlaySucceeded(w)
               /\ loc[w].event = "download_season" => SeasonStarted(w)
               /\ loc[w].event \in {"play_episode", "download_season"}
               /\ appended' = Append(appended, HistoryEntry(clock, loc[w].event,
                                                            loc[w].details))
    /\ \A w \in Workers :
           (pc'[w] = "play_replied" /\ pc[w] # "play_replied") =>
               /\ historyFile' = historyFile
               /\ appended' = appended

\* C30: a history entry is appended for a download request only on success:
\* when /api/play_episode fails (tool not found, nonzero exit, or undetected
\* output) or a season download fails to start, the history log is left
\* unchanged; a play_episode entry is appended only after the subprocess
\* exited with code 0 and a file was detected.
C30_HistoryOnlyOnSuccess ==
    /\ []OnlySuccessReachesAppend
    /\ [][OnlySuccessWritesTheLog]_vars

\* the log holds the one entry of a play_episode request that succeeded,
\* while a second play_episode request has failed on a nonzero exit and
\* left no entry
C30_Witness ==
    \E w \in Workers :
        /\ Failed(w)
        /\ loc[w].path = "exit_nonzero"
        /\ loc[w].request.path = "/api/play_episode"
        /\ historyFile.kind = "list"
        /\ Len(historyFile.items) = 1
        /\ historyFile.items[1].event = "play_episode"
        /\ appended = historyFile.items

----------------------------------------------------------------------------
(* LiveSpec: handler threads serving /api/play_episode with every way out   *)
(* of the with DOWNLOAD_LOCK block; every thread that can take a step       *)
(* takes one, and every downloader subprocess terminates                    *)

\* a step of the handler thread w after the request has arrived
HandlerStep(w) ==
    \/ PlayAcquire(w)
    \/ DownloadSnapshot(w)
    \/ DownloadSnapshotRaises(w)
    \/ \E outcome \in {"started", "not_found", "exception"} :
           DownloadSpawn(w, outcome)
    \/ \E returncode \in {0, 1} : DownloadExit(w, returncode)
    \/ DownloadDetect(w)
    \/ DownloadDetectRaises(w)
    \/ PlayRelease(w)
    \/ PlayPoster(w, "none")
    \/ AppendAcquire(w)
    \/ AppendLoad(w)
    \/ AppendSave(w)
    \/ AppendRelease(w)
    \/ PlayReplied(w)
    \/ HandlerRaised(w)

LiveNext ==
    \/ \E w \in Callers :
           \/ PlayCall(w, Payload(ShowA, <<>>, "", JInt(1), JInt(3)))
           \/ HandlerStep(w)
    \/ Downloading /\ \E name \in PlayNames : DirWrite(name, clock)

\* the scheduler runs every thread that stays runnable; threading.Lock
\* promises no waiter in particular the lock, so a waiting thread is
\* runnable only while the lock is free
LiveFairness == \A w \in Callers : WF_vars(HandlerStep(w))

LiveSpec == Init /\ [][LiveNext]_vars /\ LiveFairness

----------------------------------------------------------------------------
(* history_summaries *)

\* the episode of a summary: details["episode"], or when that is absent the
\* number in the name of details["filename"]; 0 for None
SummaryEpisode(details) ==
    IF details.episode # 0 THEN details.episode
    ELSE IF EpisodeNameMatch(Stem(details.filename)).matched
    THEN IntOf(EpisodeNameMatch(Stem(details.filename)).ep)
    ELSE 0

\* the summary text of one entry, as the pieces it is formatted from
SummaryOf(item) ==
    LET details == item.details
        anime == details.anime
        episode == SummaryEpisode(details)
        named == IF anime # <<>> THEN anime ELSE details.filename
    IN  IF item.event = "play_episode"
        THEN [text |-> "Played", of |-> anime, number |-> episode]
        ELSE IF item.event = "play_downloaded_file"
        THEN [text |-> "Played downloaded", of |-> named, number |-> episode]
        ELSE IF item.event = "download_season"
        THEN [text |-> "Started season download for", of |-> anime,
              number |-> details.episodes]
        ELSE [text |-> item.event, of |-> <<>>, number |-> 0]

\* history_summaries(limit) from the items latest_history(limit) returned
history_summaries(items) ==
    [i \in 1..Len(items) |->
        [event |-> items[i].event, summary |-> SummaryOf(items[i]),
         details |-> items[i].details]]

\* GET /api/history: history_summaries(limit=10) calls latest_history
SummariesCall(w) ==
    /\ pc[w] = "idle"
    /\ pc' = [pc EXCEPT ![w] = "latest_wait"]
    /\ loc' = [loc EXCEPT ![w] = [LocInit EXCEPT
                   !.limit = 10, !.request = [path |-> "/api/history"]]]
    /\ UNCHANGED <<clock, historyFile, historyLock, downloadLock, appended,
                   arrivals, files, posters, catalog, tree, seasonProcs, seasonWrote>>

\* the loop over the items latest_history returned
SummariesReturn(w) ==
    /\ pc[w] = "latest_done"
    /\ loc[w].request.path = "/api/history"
    /\ loc' = [loc EXCEPT ![w].ret = history_summaries(loc[w].ret)]
    /\ pc' = [pc EXCEPT ![w] = "summaries_done"]
    /\ UNCHANGED <<clock, historyFile, historyLock, downloadLock, appended,
                   arrivals, files, posters, catalog, tree, seasonProcs, seasonWrote>>

\* the reply is out
SummariesDone(w) ==
    /\ pc[w] = "summaries_done"
    /\ pc' = [pc EXCEPT ![w] = "idle"]
    /\ loc' = [loc EXCEPT ![w] = LocInit]
    /\ UNCHANGED <<clock, historyFile, historyLock, downloadLock, appended,
                   arrivals, files, posters, catalog, tree, seasonProcs, seasonWrote>>

----------------------------------------------------------------------------
(* FrameSpec: the operations that read DOWNLOAD_DIR and the history log,    *)
(* beside the writers of both: other processes writing and removing files,  *)
(* and append_history                                                       *)

\* a file system whose download root holds a file a and a link l to it
FrameTrees ==
    {t \in ServeTrees :
        /\ t[<< <<"d">>, <<"a">> >>] = FileNode
        /\ t[<< <<"d">>, <<"l">> >>] = LinkNode(<< <<"d">>, <<"a">> >>)}

FrameFilenames == {<<"a">>, <<"l">>, <<"s", "%2F", "a">>}

FrameInit ==
    /\ clock = 0
    /\ historyFile = [kind |-> "missing", items |-> <<>>]
    /\ historyLock = {}
    /\ downloadLock = {}
    /\ seasonProcs = 0
    /\ seasonWrote = {}
    /\ appended = <<>>
    /\ arrivals = <<>>
    /\ files \in Dirs(PlayNames)
    /\ posters = {}
    /\ catalog = NoCatalog
    /\ tree \in FrameTrees
    /\ pc = [w \in Workers |-> "idle"]
    /\ loc = [w \in Workers |-> LocInit]

FrameNext ==
    \/ \E w \in Callers :
           \/ DownloadCall(w)
           \/ DownloadSnapshot(w)
           \/ \E outcome \in {"started", "not_found"} : DownloadSpawn(w, outcome)
           \/ \E returncode \in {0, 1} : DownloadExit(w, returncode)
           \/ DownloadDetect(w)
           \/ DownloadDone(w)
           \/ \E order \in GroupedOrders(MediaFiles(files)) :
                  \E net \in [{ParseName(f).title : f \in MediaFiles(files)} -> {"none"}] :
                      ListLibrary(w, order, net)
           \/ LibraryDone(w)
           \/ \E filename \in FrameFilenames : ServeMedia(w, filename)
           \/ ServeDone(w)
           \/ LatestCall(w, 1)
           \/ SummariesCall(w)
           \/ LatestLoad(w)
           \/ LatestReturn(w)
           \/ loc[w].request.path = "none" /\ LatestDone(w)
           \/ SummariesReturn(w)
           \/ SummariesDone(w)
           \/ /\ clock < MaxRequests
              /\ AppendCall(w, "play_downloaded_file",
                            Details(ShowA, 0, 0, FileShowA3, "", <<>>))
           \/ AppendAcquire(w)
           \/ AppendLoad(w)
           \/ AppendSave(w)
           \/ AppendRelease(w)
    \/ \E name \in PlayNames, mtime \in Times : DirWrite(name, mtime)
    \/ \E name \in PlayNames : DirRemove(name)

FrameSpec == FrameInit /\ [][FrameNext]_vars

\* the steps in which worker w runs one of the operations
SnapshotStep(w) == pc[w] = "dl_entered" /\ pc'[w] = "dl_spawn"
DetectStep(w) == pc[w] = "dl_exited" /\ pc'[w] = "dl_returned"
LibraryStep(w) == pc[w] = "idle" /\ pc'[w] = "library_done"
MediaStep(w) ==
    pc[w] = "idle" /\ pc'[w] = "served" /\ loc'[w].request.path = "/media/"
LatestStep(w) ==
    pc[w] \in {"latest_wait", "latest_loaded"} /\ pc'[w] # pc[w]
SummariesStep(w) ==
    \/ pc[w] = "idle" /\ pc'[w] = "latest_wait"
    \/ LatestStep(w)
    \/ pc[w] = "latest_done" /\ pc'[w] = "summaries_done"

ReadsLeaveTheirSources ==
    \A w \in Workers :
        /\ (SnapshotStep(w) \/ DetectStep(w) \/ LibraryStep(w) \/ MediaStep(w)) =>
               /\ files' = files
               /\ tree' = tree
        /\ (LibraryStep(w) \/ LatestStep(w) \/ SummariesStep(w)) =>
               /\ historyFile' = historyFile
               /\ appended' = appended

\* C32: the server's own operations never write to the download directory:
\* media_snapshot, detect_downloaded_file, list_library_groups and the
\* media-serving handler leave the set of files and their modification
\* times unchanged, and list_library_groups, latest_history and
\* history_summaries leave the history log unchanged.
C32_ReadsLeaveDirectoryAndLog == [][ReadsLeaveTheirSources]_vars

\* a listing of a directory with a file in it and summaries of a log with
\* an entry in it have just been made, the file and the entry still there
C32_Witness ==
    \E w, v \in Workers :
        /\ pc[w] = "library_done"
        /\ loc[w].ret # <<>>
        /\ pc[v] = "summaries_done"
        /\ loc[v].ret # <<>>
        /\ loc[v].ret[1].summary.number = 3
        /\ DOMAIN files = PlayNames
        /\ historyFile.items # <<>>

====
